---- MODULE Spec2Model ----
(***************************************************************************)
(* The dynamic enablement engine of go-umami: Level gating, the Context,   *)
(* the Switchable cell, the Group that creates and tracks metrics and the  *)
(* Registry that forwards level changes to it.                             *)
(*                                                                         *)
(* A metric implementation is a record                                     *)
(*   [sw, cls, kind, name, help, level, declared, adapter, comps]          *)
(* cls is "noop" (noopCounter, ...), "base" (baseCounter, ...: holds one   *)
(* backend adapter) or "composite" (baseTimer, baseCache, ...: holds its   *)
(* components in comps).  sw tells whether the value sits behind a         *)
(* Switchable wrapper.  A handle is an index into the sequence sw of       *)
(* Switchable cells, so the identity of a handle is its index and the      *)
(* cell's content is its current implementation.  declared is a history    *)
(* field: the level the value was constructed with, which no SetLevel      *)
(* changes.                                                                *)
(***************************************************************************)
EXTENDS Integers, Sequences, FiniteSets, TLC

\* ------------------------------------------------------------------ Level
LevelDisabled == 0 - 1
LevelCritical == 0
LevelImportant == 1
LevelDebug == 2
LevelVerbose == 3

Levels == LevelDisabled .. LevelVerbose

\* Level.Enabled without the test for LevelDisabled.
EnabledIgnoringDisabled(l, configuredLevel) == l <= configuredLevel

\* Level.Enabled: l <= configuredLevel && configuredLevel != LevelDisabled
Enabled(l, configuredLevel) ==
    l <= configuredLevel /\ configuredLevel # LevelDisabled

\* A Context is its level (metricsContext{level}).
NewContext(level) == level

\* metricsContext.Enabled with receiver and argument exchanged.
ContextEnabledSwapped(ctx, level) == Enabled(ctx, level)

\* metricsContext.Enabled(level) delegates to level.Enabled(c.level)
ContextEnabled(ctx, level) == Enabled(level, ctx)

\* ------------------------------------------------------------------- Mask
\* A Mask (uint64) is the set of the positions of its one bits: & is
\* intersection, | is union, &^ is difference and 1 << k is {k}.
MaskWidth == 64
Bit(k) == {k}

MaskCounters == Bit(0)
MaskLatency == Bit(2)
MaskThroughput == Bit(3)
MaskErrors == Bit(4)
MaskResources == Bit(5)
MaskQueues == Bit(6)
MaskConnections == Bit(7)
MaskCache == Bit(8)
MaskCircuitBreaker == Bit(9)
MaskHealth == Bit(10)
MaskSecurity == Bit(11)
MaskPerformance == Bit(12)
MaskInternal == Bit(13)
MaskPerUser == Bit(14)
MaskPerRequest == Bit(15)
MaskDetailed == Bit(16)

MaskNone == {}
MaskEssential == MaskCounters \cup MaskLatency \cup MaskErrors
MaskProduction == MaskEssential \cup MaskThroughput \cup MaskResources \cup MaskQueues
MaskAll == 0 .. (MaskWidth - 1)

\* The sixteen category flags and the four named unions.
CategoryFlags ==
    {MaskCounters, MaskLatency, MaskThroughput, MaskErrors, MaskResources,
     MaskQueues, MaskConnections, MaskCache, MaskCircuitBreaker, MaskHealth,
     MaskSecurity, MaskPerformance, MaskInternal, MaskPerUser, MaskPerRequest,
     MaskDetailed}
NamedUnions == {MaskNone, MaskEssential, MaskProduction, MaskAll}

\* Mask.Has: m&flag != 0
MaskHas(m, flag) == (m \cap flag) # {}

\* Mask.Add written with ^ in place of |.
MaskAddToggle(m, flag) == (m \ flag) \cup (flag \ m)

\* Mask.Add: m | flag
MaskAdd(m, flag) == m \cup flag

\* Mask.Remove written with ^ in place of &^.
MaskRemoveToggle(m, flag) == (m \ flag) \cup (flag \ m)

\* Mask.Remove: m &^ flag
MaskRemove(m, flag) == m \ flag

\* ------------------------------------------------------------ metric kinds
MetricTypeBasic == 0
MetricTypeComposite == 1

BasicKinds ==
    {"Counter", "CounterVec", "Gauge", "GaugeVec",
     "Histogram", "HistogramVec", "Summary", "SummaryVec"}

CompositeKinds ==
    {"Timer", "TimerVec", "Cache", "CacheVec", "Pool", "PoolVec",
     "CircuitBreaker", "CircuitBreakerVec", "Queue", "QueueVec"}

IsVec(kind) ==
    kind \in {"CounterVec", "GaugeVec", "HistogramVec", "SummaryVec",
              "TimerVec", "CacheVec", "PoolVec", "CircuitBreakerVec", "QueueVec"}

\* The record operations of each basic contract (labels play no part in gating).
Methods(kind) ==
    CASE kind \in {"Counter", "CounterVec"} -> {"Inc", "Add"}
      [] kind \in {"Gauge", "GaugeVec"} -> {"Set", "Inc", "Dec", "Add"}
      [] kind \in {"Histogram", "HistogramVec"} -> {"Observe"}
      [] kind \in {"Summary", "SummaryVec"} -> {"Observe", "Quantile"}
      [] kind \in {"Timer", "TimerVec"} -> {"Start", "Record"}
      [] kind \in {"Cache", "CacheVec"} -> {"Hit", "Miss", "SetSize"}
      [] kind \in {"Pool", "PoolVec"} -> {"SetActive", "SetIdle", "Acquired", "Released"}
      [] kind \in {"CircuitBreaker", "CircuitBreakerVec"} -> {"SetState", "Success", "Failure"}
      [] kind \in {"Queue", "QueueVec"} -> {"SetDepth", "Enqueued", "Dequeued", "SetWaitTime"}

\* The Go type assertion m.(Kind) on a tracked switchable of kind held: it
\* succeeds when the held wrapper has every method of the asked interface with
\* the same signature (a Vec method takes labels, so Vec and plain never match).
Implements(held, asked) ==
    /\ IsVec(held) = IsVec(asked)
    /\ Methods(asked) \subseteq Methods(held)

\* Suffix of a kind's plain (unlabelled) component kinds.
VecOf(kind, vec) == IF vec THEN kind \o "Vec" ELSE kind

\* The components of each composite, in the order of Components(): the kind of
\* the component, the suffix the noop constructor gives its name, and the
\* component operation each composite operation delegates to.
ComponentSpec(kind) ==
    LET v == IsVec(kind) IN
    CASE kind \in {"Timer", "TimerVec"} ->
           << [kind |-> VecOf("Histogram", v), suffix |-> "_histogram", via |-> "Record", op |-> "Observe"] >>
      [] kind \in {"Cache", "CacheVec"} ->
           << [kind |-> VecOf("Counter", v), suffix |-> "_hit", via |-> "Hit", op |-> "Inc"],
              [kind |-> VecOf("Counter", v), suffix |-> "_miss", via |-> "Miss", op |-> "Inc"],
              [kind |-> VecOf("Gauge", v), suffix |-> "_size", via |-> "SetSize", op |-> "Set"] >>
      [] kind \in {"Pool", "PoolVec"} ->
           << [kind |-> VecOf("Gauge", v), suffix |-> "_active", via |-> "SetActive", op |-> "Set"],
              [kind |-> VecOf("Gauge", v), suffix |-> "_idle", via |-> "SetIdle", op |-> "Set"],
              [kind |-> VecOf("Counter", v), suffix |-> "_acquired", via |-> "Acquired", op |-> "Inc"],
              [kind |-> VecOf("Counter", v), suffix |-> "_released", via |-> "Released", op |-> "Inc"] >>
      [] kind \in {"CircuitBreaker", "CircuitBreakerVec"} ->
           << [kind |-> VecOf("Gauge", v), suffix |-> "_state", via |-> "SetState", op |-> "Set"],
              [kind |-> VecOf("Counter", v), suffix |-> "_success", via |-> "Success", op |-> "Inc"],
              [kind |-> VecOf("Counter", v), suffix |-> "_failure", via |-> "Failure", op |-> "Inc"] >>
      [] kind \in {"Queue", "QueueVec"} ->
           << [kind |-> VecOf("Gauge", v), suffix |-> "_depth", via |-> "SetDepth", op |-> "Set"],
              [kind |-> VecOf("Counter", v), suffix |-> "_enqueued", via |-> "Enqueued", op |-> "Inc"],
              [kind |-> VecOf("Counter", v), suffix |-> "_dequeued", via |-> "Dequeued", op |-> "Inc"],
              [kind |-> VecOf("Histogram", v), suffix |-> "_wait_time", via |-> "SetWaitTime", op |-> "Observe"] >>

\* ------------------------------------------------------- metric values
\* Input sets of the exploration.
GroupName == "g"
BasicNames == {"a"}
CompositeNames == {"g_a"}
Helps == {"help"}
RequestKinds == {"Counter", "Gauge", "Summary", "Cache", "Timer"}
DeclaredLevels == {LevelCritical, LevelDebug}
LevelChoices == {LevelDisabled, LevelCritical, LevelDebug}
BackendErrors == {"nil", "backend error"}
QuantileValues == {5}

\* newNoopCounter, newNoopGauge, ...: a noop keeps the construction parameters.
newNoop(kind, name, help, level) ==
    [sw |-> FALSE, isNoop |-> FALSE, cls |-> "noop", kind |-> kind, name |-> name,
     help |-> help, level |-> level, declared |-> level, adapter |-> 0,
     comps |-> << >>]

\* &baseCounter{baseMetric{name, help, level}, adapter}
newBase(kind, name, help, level, adapter) ==
    [sw |-> FALSE, isNoop |-> FALSE, cls |-> "base", kind |-> kind, name |-> name,
     help |-> help, level |-> level, declared |-> level, adapter |-> adapter,
     comps |-> << >>]

\* &baseCache{baseCompositeMetric{baseMetric{name, help, level}}, hits, misses, size}
newComposite(kind, name, help, level, comps) ==
    [sw |-> FALSE, isNoop |-> FALSE, cls |-> "composite", kind |-> kind, name |-> name,
     help |-> help, level |-> level, declared |-> level, adapter |-> 0,
     comps |-> comps]

\* newBaseSwitchableMetric(impl): wraps impl; the isNoop field is left at its
\* zero value.
newBaseSwitchableMetric(impl) == [impl EXCEPT !.sw = TRUE, !.isNoop = FALSE]

\* newNoopTimer, newNoopCache, ...: a base composite over noop components
\* named opts.Name + suffix.
newNoopComposite(kind, name, help, level) ==
    newComposite(kind, name, help, level,
        [i \in DOMAIN ComponentSpec(kind) |->
            newNoop(ComponentSpec(kind)[i].kind, name \o ComponentSpec(kind)[i].suffix,
                    help, level)])

\* baseMetric.Level, baseMetric.Name (a Switchable delegates to its impl)
Level(m) == m.level
Name(m) == m.name

\* baseMetric.Type / baseCompositeMetric.Type
Type(m) == IF m.cls = "composite" THEN MetricTypeComposite ELSE MetricTypeBasic

\* baseTimer.Components, baseCache.Components, ...: every direct child.
Components(m) == DOMAIN m.comps

\* baseCompositeMetric.Components: the embedded default returns nil.
baseCompositeMetricComponents(m) == {}

\* baseMetric.SetLevel with the assignment lost.
baseMetricSetLevelIgnored(m, level) == m

\* baseMetric.SetLevel
baseMetricSetLevel(m, level) == [m EXCEPT !.level = level]

\* baseCompositeMetric.SetLevel: ranges over b.Components() with b the embedded
\* *baseCompositeMetric, so the method called is baseCompositeMetric.Components.
baseCompositeMetricSetLevel(m, level) ==
    [m EXCEPT !.comps =
        [i \in DOMAIN m.comps |->
            IF i \in baseCompositeMetricComponents(m)
            THEN baseMetricSetLevel(m.comps[i], level)
            ELSE m.comps[i]]]

\* Metric.SetLevel as dispatched on the implementation (baseSwitchableMetric.SetLevel
\* delegates to impl.SetLevel).
SetLevel(m, level) ==
    IF m.cls = "composite"
    THEN baseCompositeMetricSetLevel(m, level)
    ELSE baseMetricSetLevel(m, level)

\* Whether a value is a noop implementation (a NoopMetric), and whether a
\* Switchable is noop-backed: a noop, or a composite built over noops.
IsNoopImpl(m) == m.cls = "noop"
IsNoopBacked(m) ==
    \/ m.cls = "noop"
    \/ m.cls = "composite" /\ \A i \in DOMAIN m.comps : m.comps[i].cls = "noop"
IsRealBacked(m) ==
    \/ m.cls = "base"
    \/ m.cls = "composite" /\ \A i \in DOMAIN m.comps : m.comps[i].cls = "base"

\* ------------------------------------------------------------------ state
VARIABLES
    globalLevel,   \* registry.globalLevel
    minLevel,      \* group.minLevel
    basics,        \* group.basics: name -> handle
    composites,    \* group.composites: name -> handle
    noops,         \* group.noops: name -> MetricType
    sw,            \* the Switchable cells handed out, by handle
    adapters,      \* number of adapters the Backend has constructed
    last,          \* the last call and what it returned
    fn,            \* the last call of a pure function: its arguments and result
    registry,      \* a registry with its groups (NewGroup, SetGlobalLevel)
    engine,        \* the mask-aware engine: a group, its factory and its metrics
    contexts,      \* the Contexts handed out, as cells of a heap
    switchable,    \* one Switchable, its lock and the goroutines using it
    guarded,       \* one Group, its lock and the goroutines using it
    racing,        \* one Group and the goroutines inside its factory methods
    locks          \* the registry, group and Switchable locks and their holders

vars ==
    << globalLevel, minLevel, basics, composites, noops, sw, adapters, last,
       fn, registry, engine, contexts, switchable, guarded, racing, locks >>

\* The variables of the Group under study, and the rest.
groupVars == << globalLevel, minLevel, basics, composites, noops, sw, adapters, last >>

Handles == 1 .. Len(sw)
Range(f) == { f[x] : x \in DOMAIN f }
EmptyMap == [x \in {} |-> 0]

\* The values of fn, registry, engine and the later variables where they play
\* no part.
NoFn == [op |-> "none", a |-> 0, b |-> 0, res |-> 0]
NoRegistry == [on |-> FALSE]
NoEngine == [on |-> FALSE]
NoContexts == [on |-> FALSE]
NoSwitchable == [on |-> FALSE]
NoGuarded == [on |-> FALSE]
NoRacing == [on |-> FALSE]
NoLocks == [on |-> FALSE]

\* The variables added for the later specifications, and their idle values.
lateVars == << racing, locks >>
LateIdle == racing = NoRacing /\ locks = NoLocks
restVars == << contexts, switchable, guarded, lateVars >>
RestIdle ==
    /\ contexts = NoContexts /\ switchable = NoSwitchable /\ guarded = NoGuarded
    /\ LateIdle

NoCall ==
    [op |-> "none", kind |-> "", name |-> "", level |-> LevelDisabled,
     flag |-> FALSE, h |-> 0, calls |-> 0, err |-> "nil", val |-> 0]

\* group.getBasic that never finds the name.
getBasicMissing(name) == 0

\* group.getBasic / group.getComposite: the tracked metric, or 0 for nil
getBasic(name) == IF name \in DOMAIN basics THEN basics[name] ELSE 0
getComposite(name) == IF name \in DOMAIN composites THEN composites[name] ELSE 0

\* group.Context
Context == NewContext(minLevel)

\* group.Metric: the first tracked basic, else composite, whose Name() is name
Metric(name) ==
    IF \E k \in DOMAIN basics : Name(sw[basics[k]]) = name
    THEN basics[CHOOSE k \in DOMAIN basics : Name(sw[basics[k]]) = name]
    ELSE IF \E k \in DOMAIN composites : Name(sw[composites[k]]) = name
         THEN composites[CHOOSE k \in DOMAIN composites : Name(sw[composites[k]]) = name]
         ELSE 0

\* A basic factory method that skips the level test and always builds the
\* backend metric.
basicImplAlwaysReal(kind, name, help, level, adapter) ==
    newBase(kind, name, help, level, adapter)

\* The implementation a basic factory method builds (group.Counter lines
\* 199-214 and its siblings): a noop when the level is not enabled, else a base
\* metric around a newly constructed adapter.  opts.Name is already prefixed.
basicImpl(kind, name, help, level, adapter) ==
    IF ~Enabled(level, minLevel)
    THEN newNoop(kind, name, help, level)
    ELSE newBase(kind, name, help, level, adapter)

\* g.Counter(opts.HitOpts, level) with FromComposite set: an untracked
\* Switchable around a base metric (the level is enabled when this is called).
componentOf(kind, name, help, level, adapter) ==
    newBaseSwitchableMetric(
        basicImpl(kind, GroupName \o "_" \o name, help, level, adapter))

\* The implementation a composite factory method builds (group.Cache lines
\* 567-583 and its siblings).
compositeImpl(kind, name, help, level) ==
    IF ~Enabled(level, minLevel)
    THEN newNoopComposite(kind, name, help, level)
    ELSE newComposite(kind, name, help, level,
            [i \in DOMAIN ComponentSpec(kind) |->
                componentOf(ComponentSpec(kind)[i].kind,
                            name \o ComponentSpec(kind)[i].suffix,
                            help, level, adapters + i)])

\* Number of Backend constructor calls made while building impl.
Constructed(impl) ==
    IF impl.cls = "base" THEN 1
    ELSE Cardinality({i \in DOMAIN impl.comps : impl.comps[i].cls = "base"})

\* group.track that also files every component of a composite in the basic
\* collection, as a factory call without FromComposite would.
trackWithComponents(metric, h, isTrackedNoop) ==
    /\ basics' = IF Type(metric) = MetricTypeBasic
                 THEN (Name(metric) :> h) @@ basics
                 ELSE [n \in DOMAIN basics \cup { Name(metric.comps[i]) : i \in DOMAIN metric.comps } |->
                         IF n \in DOMAIN basics THEN basics[n] ELSE h]
    /\ composites' = IF Type(metric) = MetricTypeComposite
                     THEN (Name(metric) :> h) @@ composites ELSE composites
    /\ noops' = IF isTrackedNoop
                THEN (Name(metric) :> Type(metric)) @@ noops ELSE noops

\* group.track: file the Switchable under its Name() in the collection of its
\* Type(), and in noops when isTrackedNoop.
track(metric, h, isTrackedNoop) ==
    /\ basics' = IF Type(metric) = MetricTypeBasic
                 THEN (Name(metric) :> h) @@ basics ELSE basics
    /\ composites' = IF Type(metric) = MetricTypeComposite
                     THEN (Name(metric) :> h) @@ composites ELSE composites
    /\ noops' = IF isTrackedNoop
                THEN (Name(metric) :> Type(metric)) @@ noops ELSE noops

\* A factory method found a tracked metric m under the name: the type
\* assertion m.(Kind) returns it or panics.
ReturnTracked(kind, name, level, h) ==
    /\ last' = [NoCall EXCEPT
                 !.op = IF Implements(sw[h].kind, kind) THEN "Request" ELSE "panic",
                 !.kind = kind, !.name = name, !.level = level,
                 !.h = IF Implements(sw[h].kind, kind) THEN h ELSE 0]
    /\ UNCHANGED << globalLevel, minLevel, basics, composites, noops, sw, adapters >>
    /\ UNCHANGED << fn, registry, engine, restVars >>

\* A factory method builds impl, wraps it in a new Switchable and tracks it.
CreateTracked(kind, level, impl, isTrackedNoop) ==
    /\ sw' = Append(sw, newBaseSwitchableMetric(impl))
    /\ adapters' = adapters + Constructed(impl)
    /\ track(impl, Len(sw) + 1, isTrackedNoop)
    /\ last' = [NoCall EXCEPT !.op = "Request", !.kind = kind, !.name = Name(impl),
                              !.level = level, !.flag = TRUE, !.h = Len(sw) + 1,
                              !.calls = Constructed(impl)]
    /\ UNCHANGED << globalLevel, minLevel >>
    /\ UNCHANGED << fn, registry, engine, restVars >>

\* group.Counter, CounterVec, Gauge, GaugeVec, Histogram, HistogramVec,
\* Summary, SummaryVec with opts.FromComposite = false
RequestBasic(kind, n, help, level) ==
    /\ kind \in BasicKinds
    /\ LET name == GroupName \o "_" \o n IN
       IF getBasic(name) # 0
       THEN ReturnTracked(kind, name, level, getBasic(name))
       ELSE CreateTracked(kind, level,
                basicImpl(kind, name, help, level, adapters + 1),
                ~Enabled(level, minLevel))

\* group.Timer, TimerVec, Cache, CacheVec, Pool, PoolVec, CircuitBreaker,
\* CircuitBreakerVec, Queue, QueueVec; each calls switchable.SetLevel(level)
\* on the new Switchable before tracking it.
RequestComposite(kind, n, help, level) ==
    /\ kind \in CompositeKinds
    /\ IF getComposite(n) # 0
       THEN ReturnTracked(kind, n, level, getComposite(n))
       ELSE CreateTracked(kind, level,
                SetLevel(compositeImpl(kind, n, help, level), level),
                ~Enabled(level, minLevel))

\* group.convertNoops: ranges over the noop set; both cases of its switch are
\* empty.
convertNoops(cells) == cells

\* The else branch of group.SetGroupLevel with the loop over g.basics left out.
setTrackedLevelsCompositesOnly(cells, level) ==
    [h \in DOMAIN cells |->
        IF h \in Range(composites)
        THEN SetLevel(cells[h], level)
        ELSE cells[h]]

\* The else branch of group.SetGroupLevel: SetLevel on every tracked composite
\* and every tracked basic.
setTrackedLevels(cells, level) ==
    [h \in DOMAIN cells |->
        IF h \in Range(composites) \cup Range(basics)
        THEN SetLevel(cells[h], level)
        ELSE cells[h]]

\* group.SetGroupLevel: minLevel is assigned first, so the test
\* level.Enabled(g.minLevel) compares level with itself.
groupSetGroupLevel(level, replaceNoops) ==
    /\ minLevel' = level
    /\ sw' = IF replaceNoops /\ Enabled(level, level)
             THEN convertNoops(sw)
             ELSE setTrackedLevels(sw, level)
    /\ UNCHANGED << basics, composites, noops, adapters >>

SetGroupLevel(level, replaceNoops) ==
    /\ groupSetGroupLevel(level, replaceNoops)
    /\ last' = [NoCall EXCEPT !.op = "SetGroupLevel", !.level = level,
                              !.flag = replaceNoops]
    /\ UNCHANGED globalLevel
    /\ UNCHANGED << fn, registry, engine, restVars >>

\* registry.SetGlobalLevel: sets the default and forwards to every Group.
SetGlobalLevel(level, replaceNoops) ==
    /\ globalLevel' = level
    /\ groupSetGroupLevel(level, replaceNoops)
    /\ last' = [NoCall EXCEPT !.op = "SetGlobalLevel", !.level = level,
                              !.flag = replaceNoops]
    /\ UNCHANGED << fn, registry, engine, restVars >>

\* Metric.SetLevel called on a handle (baseSwitchableMetric.SetLevel).
MetricSetLevel(h, level) ==
    /\ h \in Handles
    /\ sw' = [sw EXCEPT ![h] = SetLevel(@, level)]
    /\ last' = [NoCall EXCEPT !.op = "SetLevel", !.h = h, !.level = level]
    /\ UNCHANGED << globalLevel, minLevel, basics, composites, noops, adapters >>
    /\ UNCHANGED << fn, registry, engine, restVars >>

\* ---------------------------------------------------- record operations
\* What a backend adapter method may return: any error, and for Quantile any value.
adapterReturns(m, op) ==
    { [calls |-> 1, err |-> e, val |-> v, adapter |-> m.adapter] :
        e \in BackendErrors, v \in IF op = "Quantile" THEN QuantileValues ELSE {0} }

\* noopCounter.Inc, noopSummary.Quantile, ...: nil (and 0), nothing else.
invokeNoop(m, op) == { [calls |-> 0, err |-> "nil", val |-> 0, adapter |-> 0] }

\* A base operation that forgets the ctx.Enabled(level) test.
invokeBaseUngated(m, op, ctx) == adapterReturns(m, op)

\* baseCounter.Inc, baseSummary.Quantile, ...: nil (and 0) unless ctx enables
\* the level, and otherwise whatever the adapter returns.
invokeBase(m, op, ctx) ==
    IF ~ContextEnabled(ctx, m.level)
    THEN { [calls |-> 0, err |-> "nil", val |-> 0, adapter |-> 0] }
    ELSE adapterReturns(m, op)

\* An operation of a basic contract on a basic implementation (through its
\* Switchable wrapper when it has one).
invokeBasic(m, op, ctx) ==
    IF m.cls = "noop" THEN invokeNoop(m, op) ELSE invokeBase(m, op, ctx)

\* baseCache.Hit, baseTimer.Record, ...: delegate to the gated operation of one
\* component; the composite makes no check of its own.
invokeComposite(m, op, ctx) ==
    LET i == CHOOSE j \in DOMAIN ComponentSpec(m.kind) : ComponentSpec(m.kind)[j].via = op
    IN invokeBasic(m.comps[i], ComponentSpec(m.kind)[i].op, ctx)

invoke(m, op, ctx) ==
    IF m.cls = "composite"
    THEN invokeComposite(m, op, ctx)
    ELSE invokeBasic(m, op, ctx)

\* switchableCounter.Inc, switchableCache.Hit, ...: delegate to the current
\* implementation.
MetricOp(h, op, ctx) ==
    /\ h \in Handles
    /\ op \in Methods(sw[h].kind) \ {"Start"}
    /\ \E r \in invoke(sw[h], op, ctx) :
         last' = [NoCall EXCEPT !.op = op, !.h = h, !.level = ctx,
                                !.calls = r.calls, !.err = r.err, !.val = r.val]
    /\ UNCHANGED << globalLevel, minLevel, basics, composites, noops, sw, adapters >>
    /\ UNCHANGED << fn, registry, engine, restVars >>

\* ------------------------------------------------------------ specification
\* NewRegistry(level) followed by NewGroup(GroupName, backend, level...)
Init ==
    /\ globalLevel \in LevelChoices
    /\ minLevel \in LevelChoices
    /\ basics = EmptyMap
    /\ composites = EmptyMap
    /\ noops = EmptyMap
    /\ sw = << >>
    /\ adapters = 0
    /\ last = NoCall
    /\ fn = NoFn /\ registry = NoRegistry /\ engine = NoEngine /\ RestIdle

Next ==
    \/ \E kind \in RequestKinds \cap BasicKinds, n \in BasicNames, help \in Helps,
          level \in DeclaredLevels : RequestBasic(kind, n, help, level)
    \/ \E kind \in RequestKinds \cap CompositeKinds, n \in CompositeNames, help \in Helps,
          level \in DeclaredLevels : RequestComposite(kind, n, help, level)
    \/ \E level \in LevelChoices, r \in BOOLEAN : SetGroupLevel(level, r)
    \/ \E level \in LevelChoices, r \in BOOLEAN : SetGlobalLevel(level, r)
    \/ \E h \in Handles, level \in LevelChoices : MetricSetLevel(h, level)
    \/ \E h \in Handles : \E op \in Methods(sw[h].kind), ctx \in LevelChoices :
          MetricOp(h, op, ctx)

Spec == Init /\ [][Next]_vars

\* ------------------------------------------------------- properties
\* The call recorded in l is group.SetGroupLevel, made directly or forwarded by
\* registry.SetGlobalLevel.
GroupLevelCall(l) == l.op \in {"SetGroupLevel", "SetGlobalLevel"}

\* Every result of the operation op on implementation m under ctx is refused:
\* nil, zero, and no adapter call.
Refused(m, op, ctx) ==
    \A r \in invoke(m, op, ctx) : r.calls = 0 /\ r.err = "nil" /\ r.val = 0

\* Every result of the operation reaches the backend adapter exactly once.
Emitted(m, op, ctx) == \A r \in invoke(m, op, ctx) : r.calls = 1

RecordOps(m) == Methods(m.kind) \ {"Start"}

\* The noop set ns holds an entry for the metric of this name and type.
NoopEntry(ns, name, type) == name \in DOMAIN ns /\ ns[name] = type

\* C1: in a Group at LevelDisabled, a Counter declared at LevelDebug was
\* created as a noop; a SetGroupLevel(LevelDebug, ReplaceNoops: true) leaves the
\* handle such that every Inc with a LevelDebug context calls the backend's Inc
\* exactly once.
C1_UpgradedCounterEmits ==
    [][ (/\ GroupLevelCall(last') /\ last'.flag /\ last'.level = LevelDebug
         /\ minLevel = LevelDisabled)
        => \A h \in Range(basics) :
              (/\ sw[h].kind = "Counter" /\ IsNoopImpl(sw[h])
               /\ sw[h].declared = LevelDebug /\ Level(sw[h]) = LevelDebug)
              => Emitted(sw'[h], "Inc", NewContext(LevelDebug)) ]_vars

\* C2: a SetGroupLevel(L, ReplaceNoops: true) with L other than LevelDisabled
\* upgrades every name that was in the noop set: its Switchable holds a real
\* implementation afterwards and the name has left the noop set.
C2_NoopsUpgraded ==
    [][ (GroupLevelCall(last') /\ last'.flag /\ last'.level # LevelDisabled)
        => \A name \in DOMAIN noops :
              /\ name \notin DOMAIN noops'
              /\ LET h == IF noops[name] = MetricTypeBasic
                          THEN basics[name] ELSE composites[name]
                 IN IsRealBacked(sw'[h]) ]_vars

\* C3: no step removes a tracked name, and the handle tracked for a name, as a
\* collection holds it and as Metric(name) returns it, stays the handle it was.
C3_HandleIdentity ==
    [][ /\ DOMAIN basics \subseteq DOMAIN basics'
        /\ DOMAIN composites \subseteq DOMAIN composites'
        /\ \A n \in DOMAIN basics : basics'[n] = basics[n]
        /\ \A n \in DOMAIN composites : composites'[n] = composites[n]
        /\ \A n \in DOMAIN basics \cup DOMAIN composites :
              Metric(n)' = Metric(n) ]_vars

\* C4: a request that follows a request of the same kind and name returns the
\* same handle, whatever level it passes, adds no tracked entry and constructs
\* nothing in the backend.
C4_RepeatedRequest ==
    [][ (/\ last.op = "Request" /\ last'.op \in {"Request", "panic"}
         /\ last'.kind = last.kind /\ last'.name = last.name)
        => /\ last'.op = "Request"
           /\ last'.h = last.h
           /\ ~last'.flag /\ last'.calls = 0
           /\ UNCHANGED << basics, composites, noops, sw, adapters >> ]_vars

\* C4 witness: a request returned a tracked handle whose level differs from
\* the level the request passed.
C4_Witness ==
    /\ last.op = "Request" /\ ~last.flag /\ last.h \in Handles
    /\ sw[last.h].kind = last.kind
    /\ sw[last.h].declared # last.level

\* A tracked real-backed metric that still has its declared level, which the
\* level c does not enable.
LoweredBelow(m, c) ==
    /\ IsRealBacked(m)
    /\ Level(m) = m.declared
    /\ ~(Level(m) <= c /\ c # LevelDisabled)

\* C5 as stated: after SetGroupLevel(C, ReplaceNoops: false) every operation
\* with the Group's Context() on a real-backed metric declared at a level C does
\* not enable is refused, and the Switchable keeps its real implementation.
C5_LoweredRefused ==
    [][ (GroupLevelCall(last') /\ ~last'.flag)
        => \A h \in Handles :
              LoweredBelow(sw[h], last'.level)
              => /\ IsRealBacked(sw'[h])
                 /\ \A op \in RecordOps(sw'[h]) :
                       Refused(sw'[h], op, NewContext(minLevel')) ]_vars

\* C5 amended: after SetGroupLevel(C, ReplaceNoops: false) a real-backed metric
\* declared at a level C does not enable keeps its real implementation; with
\* C = LevelDisabled every operation with the Group's Context() is refused; with
\* any other C a tracked basic metric has Level C and every operation with the
\* Group's Context() reaches the backend adapter.
C5_LoweredBasicFollows ==
    [][ (GroupLevelCall(last') /\ ~last'.flag)
        => \A h \in Handles :
              LoweredBelow(sw[h], last'.level)
              => /\ IsRealBacked(sw'[h])
                 /\ minLevel' = LevelDisabled
                    => \A op \in RecordOps(sw'[h]) :
                          Refused(sw'[h], op, NewContext(minLevel'))
                 /\ (minLevel' # LevelDisabled /\ Type(sw[h]) = MetricTypeBasic)
                    => /\ Level(sw'[h]) = minLevel'
                       /\ \A op \in RecordOps(sw'[h]) :
                             Emitted(sw'[h], op, NewContext(minLevel')) ]_vars

\* C5 witness: an operation with the Group's Context() reached the backend of
\* a basic metric declared above the Group's level, right where the Group's
\* level is LevelCritical.
C5_Witness ==
    /\ last.op \in {"Inc", "Add", "Set", "Dec", "Observe", "Quantile"}
    /\ last.h \in Range(basics)
    /\ sw[last.h].cls = "base"
    /\ sw[last.h].declared = LevelDebug
    /\ minLevel = LevelCritical /\ last.level = NewContext(minLevel)
    /\ last.calls = 1

C7_GatedOrNoop ==
    (/\ last.op \in {"Inc", "Add", "Set", "Dec", "Observe", "Quantile"}
     /\ last.h \in Handles
     /\ Type(sw[last.h]) = MetricTypeBasic
     /\ \/ ~(Level(sw[last.h]) <= last.level /\ last.level # LevelDisabled)
        \/ IsNoopImpl(sw[last.h]))
    => last.calls = 0 /\ last.err = "nil" /\ last.val = 0

\* C7 witness: Quantile on a real-backed Summary under a context that does not
\* enable its level.
C7_Witness ==
    /\ last.op = "Quantile" /\ last.h \in Handles
    /\ sw[last.h].cls = "base"
    /\ Level(sw[last.h]) = LevelDebug /\ last.level = LevelCritical
    /\ last.calls = 0

\* C8: after SetLevel(L) on a composite metric every metric of its Components()
\* reports Level() = L.
C8_CompositeSetLevel ==
    (/\ last.op = "SetLevel" /\ last.h \in Handles
     /\ Type(sw[last.h]) = MetricTypeComposite)
    => \A i \in Components(sw[last.h]) : Level(sw[last.h].comps[i]) = last.level

\* C9: after SetGroupLevel(L, ReplaceNoops: false) every tracked basic metric,
\* every tracked composite metric and every component of one reports
\* Level() = L.
C9_GroupLevelReachesAll ==
    (GroupLevelCall(last) /\ ~last.flag)
    => \A h \in Range(basics) \cup Range(composites) :
          /\ Level(sw[h]) = last.level
          /\ \A i \in Components(sw[h]) : Level(sw[h].comps[i]) = last.level

\* C10 as stated: SetGroupLevel(L, ReplaceNoops: false) changes the Group's
\* minimum level and nothing else: the tracking collections and every tracked
\* metric, its implementation and its Level, stay as they were.
C10_OnlyMinLevel ==
    [][ (GroupLevelCall(last') /\ ~last'.flag)
        => /\ minLevel' = last'.level
           /\ UNCHANGED << basics, composites, noops, adapters >>
           /\ sw' = sw ]_vars

\* C10 amended: SetGroupLevel(L, ReplaceNoops: false) sets the Group's minimum
\* level, swaps no implementation, constructs nothing and leaves the tracking
\* collections unchanged, and every tracked basic metric reports Level L
\* afterwards.
C10_LevelsRewritten ==
    [][ (GroupLevelCall(last') /\ ~last'.flag)
        => /\ minLevel' = last'.level
           /\ UNCHANGED << basics, composites, noops, adapters >>
           /\ Len(sw') = Len(sw)
           /\ \A h \in Handles :
                 /\ sw'[h].cls = sw[h].cls
                 /\ sw'[h].adapter = sw[h].adapter
                 /\ sw'[h].name = sw[h].name
                 /\ sw'[h].declared = sw[h].declared
                 /\ DOMAIN sw'[h].comps = DOMAIN sw[h].comps
                 /\ \A i \in DOMAIN sw[h].comps :
                       /\ sw'[h].comps[i].cls = sw[h].comps[i].cls
                       /\ sw'[h].comps[i].adapter = sw[h].comps[i].adapter
           /\ \A h \in Range(basics') : Level(sw'[h]) = last'.level ]_vars

\* C10 witness: right after a SetGroupLevel(LevelCritical, ReplaceNoops: false)
\* a tracked basic metric declared at LevelDebug reports LevelCritical.
C10_Witness ==
    /\ GroupLevelCall(last) /\ ~last.flag /\ last.level = LevelCritical
    /\ \E h \in Range(basics) :
          sw[h].declared = LevelDebug /\ Level(sw[h]) = LevelCritical

\* ------------------------------------------------ pure functions
\* The Group under study and the other side states at rest.
GroupIdle ==
    /\ globalLevel = LevelDisabled /\ minLevel = LevelDisabled
    /\ basics = EmptyMap /\ composites = EmptyMap /\ noops = EmptyMap
    /\ sw = << >> /\ adapters = 0 /\ last = NoCall

\* l.Enabled(configuredLevel) called with two levels.
CallEnabled(l, c) ==
    /\ fn' = [op |-> "Enabled", a |-> l, b |-> c, res |-> Enabled(l, c)]
    /\ UNCHANGED << groupVars, registry, engine, restVars >>

\* The masks the pure functions are applied to: every flag and named union,
\* the bit no flag names, the top bit, and some mixtures.
MaskInputs ==
    CategoryFlags \cup NamedUnions \cup
    {Bit(1), Bit(MaskWidth - 1), MaskCounters \cup MaskPerUser,
     MaskProduction \cup MaskCache, MaskAll \ MaskErrors}

\* m.Has(flag), m.Add(flag) and m.Remove(flag); has is what Has(flag) answers
\* on the mask returned, recv is the receiver after the call.
CallHas(m, flag) ==
    /\ fn' = [op |-> "Has", a |-> m, b |-> flag, res |-> MaskHas(m, flag)]
    /\ UNCHANGED << groupVars, registry, engine, restVars >>

CallAdd(m, flag) ==
    /\ fn' = [op |-> "Add", a |-> m, b |-> flag, res |-> MaskAdd(m, flag),
              has |-> MaskHas(MaskAdd(m, flag), flag), recv |-> m]
    /\ UNCHANGED << groupVars, registry, engine, restVars >>

CallRemove(m, flag) ==
    /\ fn' = [op |-> "Remove", a |-> m, b |-> flag, res |-> MaskRemove(m, flag),
              has |-> MaskHas(MaskRemove(m, flag), flag), recv |-> m]
    /\ UNCHANGED << groupVars, registry, engine, restVars >>

FnInit == GroupIdle /\ fn = NoFn /\ registry = NoRegistry /\ engine = NoEngine /\ RestIdle

FnNext ==
    \/ \E l \in Levels, c \in Levels : CallEnabled(l, c)
    \/ \E m \in MaskInputs, flag \in CategoryFlags \cup NamedUnions : CallHas(m, flag)
    \/ \E m \in MaskInputs, flag \in CategoryFlags \cup NamedUnions : CallAdd(m, flag)
    \/ \E m \in MaskInputs, flag \in CategoryFlags \cup NamedUnions : CallRemove(m, flag)

FnSpec == FnInit /\ [][FnNext]_vars

\* C11: for all levels L and C, L.Enabled(C) is true exactly when L <= C and C
\* is not LevelDisabled; L.Enabled(LevelDisabled) is false for every L.
C11_EnabledTable ==
    fn.op = "Enabled"
    => /\ fn.res = (<< fn.a, fn.b >> \in
                      { << l, c >> \in Levels \X (LevelCritical .. LevelVerbose) : l <= c })
       /\ fn.b = LevelDisabled => fn.res = FALSE

\* C11 witness: LevelDisabled.Enabled(LevelDisabled) was computed and is false,
\* although LevelDisabled <= LevelDisabled.
C11_Witness ==
    /\ fn.op = "Enabled" /\ fn.a = LevelDisabled /\ fn.b = LevelDisabled
    /\ fn.res = FALSE

\* C12: while the Group's minimum level is LevelDisabled, an operation on any
\* of its metrics, basic or composite, made with the Group's Context() calls no
\* backend adapter, whatever requests and level changes came before.
C12_DisabledGroupSilent ==
    (/\ last.op \in UNION { Methods(k) : k \in BasicKinds \cup CompositeKinds }
     /\ minLevel = LevelDisabled
     /\ last.level = Context)
    => last.calls = 0

\* C12 witness: the operation was made on a real-backed metric, created while
\* the Group's level enabled it, after the Group was set to LevelDisabled.
C12_Witness ==
    /\ last.op \in {"Inc", "Hit"} /\ last.h \in Handles
    /\ IsRealBacked(sw[last.h])
    /\ minLevel = LevelDisabled /\ last.level = Context
    /\ last.calls = 0

\* C19 as stated: for every mask M and every flag F, single-bit or named union
\* (none, essential, production, all), M.Add(F).Has(F) is true.
C19_AddThenHas == fn.op = "Add" => fn.has = TRUE

\* C19 amended: M.Add(F).Has(F) is true for every flag F with a bit set (every
\* category flag, essential, production, all) and false for F = MaskNone.
C19_AddThenHasNonEmpty == fn.op = "Add" => fn.has = (fn.b # MaskNone)

\* C19 witness: Add of the union MaskEssential to a mask that shares no bit
\* with it, and Has answers true on the result.
C19_Witness ==
    /\ fn.op = "Add" /\ fn.a = MaskPerUser /\ fn.b = MaskEssential
    /\ fn.has = TRUE

\* C20: M.Add(F) has exactly the bits of M and of F, M.Remove(F) exactly the
\* bits of M that are not in F, so M.Remove(F).Has(F) is false and no bit
\* outside F changes; M is not modified; the sixteen category flags are
\* distinct single bits, so adding or removing one leaves Has of every other
\* one as it was.
C20_AddRemoveBits ==
    /\ \A f \in CategoryFlags : Cardinality(f) = 1 /\ f \subseteq MaskAll
    /\ \A f, g \in CategoryFlags : f # g => f \cap g = {}
    /\ Cardinality(CategoryFlags) = 16
    /\ fn.op \in {"Add", "Remove"}
       => /\ fn.recv = fn.a
          /\ \A i \in MaskAll :
                (i \in fn.res) =
                   IF fn.op = "Add" THEN i \in fn.a \/ i \in fn.b
                                    ELSE i \in fn.a /\ i \notin fn.b
          /\ fn.res \subseteq MaskAll
          /\ fn.op = "Remove" => fn.has = FALSE
          /\ fn.b \in CategoryFlags
             => \A g \in CategoryFlags \ {fn.b} :
                   (fn.res \cap g # {}) = (fn.a \cap g # {})

\* C20 witness: Remove of MaskErrors from MaskProduction keeps the other
\* production bits and drops that one.
C20_Witness ==
    /\ fn.op = "Remove" /\ fn.a = MaskProduction /\ fn.b = MaskErrors
    /\ fn.res = MaskProduction \ MaskErrors /\ fn.res # MaskProduction
    /\ fn.has = FALSE

\* ------------------------------------------------ the mask-aware engine
\* The engine of factory.go: a group with a level and a mask, the factory it
\* caches, and metrics that hold their backend, level and mask directly.
\* engine.m is the metric handle the caller holds, engine.asked the level and
\* mask it was declared with (kept for the properties), engine.total what its
\* backend counter has recorded, engine.call the last call and its outcome.
EngineLevels == {LevelDisabled, LevelCritical, LevelDebug}
EngineMasks == {MaskNone, MaskCounters, MaskPerUser, MaskEssential}
EngineKinds == {"Counter", "Histogram", "Timer"}
AddValues == {5}
FnErrors == {"nil", "fn error"}
MaxTotal == 7

\* NewContext(level, mask) of the mask-aware engine
NewMaskContext(level, mask) == [level |-> level, mask |-> mask]

\* metricsContext.Enabled and metricsContext.EnabledMask
MaskContextEnabled(ctx, level) == Enabled(level, ctx.level)
EnabledMask(ctx, mask) == MaskHas(ctx.mask, mask)

\* newFactory: the factory keeps the level and mask it was created with.
newFactory(level, mask) == [nil |-> FALSE, level |-> level, mask |-> mask]

\* g.factory = nil
NilFactory == [nil |-> TRUE, level |-> LevelDisabled, mask |-> MaskNone]

\* group.Factory: the cached factory, created from the group's level and mask
\* when there is none.
groupFactory(g) ==
    IF g.factory.nil THEN newFactory(g.level, g.mask) ELSE g.factory

NoMetric == [kind |-> "none", real |-> FALSE, level |-> LevelDisabled, mask |-> MaskNone]

\* &noopCounter{}, &noopHistogram{}: a noop holds nothing.
noopOf(kind) == [NoMetric EXCEPT !.kind = kind]

\* factory.Counter, factory.Histogram: a noop unless the factory's level
\* enables the level and the factory's mask has the mask.
factoryBasic(f, kind, level, mask) ==
    IF ~Enabled(level, f.level) \/ ~MaskHas(f.mask, mask)
    THEN noopOf(kind)
    ELSE [kind |-> kind, real |-> TRUE, level |-> level, mask |-> mask]

\* factory.Timer: a timer around f.Histogram(...)
factoryTimer(f, level, mask) ==
    [factoryBasic(f, "Histogram", level, mask) EXCEPT !.kind = "Timer"]

factoryMetric(f, kind, level, mask) ==
    IF kind = "Timer" THEN factoryTimer(f, level, mask)
    ELSE factoryBasic(f, kind, level, mask)

\* Outcome of an operation: how often fn ran, how often the backend was
\* called, the error the backend returned, the error the operation returned,
\* and what the backend added to its total.
EarlyReturn == [fnRuns |-> 0, calls |-> 0, berr |-> "nil", err |-> "nil", added |-> 0]

\* return c.backend.Inc(): the backend records v unless it fails, and its
\* error is the operation's.
backendCall(v) ==
    { [EarlyReturn EXCEPT !.calls = 1, !.berr = e, !.err = e,
                          !.added = IF e = "nil" THEN v ELSE 0] : e \in BackendErrors }

\* An operation that calls the backend and returns nil whatever it answers.
gatedOpErrorDropped(m, ctx, v) ==
    IF ~MaskContextEnabled(ctx, m.level) \/ ~EnabledMask(ctx, m.mask)
    THEN {EarlyReturn}
    ELSE { [r EXCEPT !.err = "nil"] : r \in backendCall(v) }

\* An operation that tests the level and not the mask.
gatedOpLevelOnly(m, ctx, v) ==
    IF ~MaskContextEnabled(ctx, m.level)
    THEN {EarlyReturn}
    ELSE backendCall(v)

\* counter.Inc, counter.Add, histogram.Observe
gatedOp(m, ctx, v) ==
    IF ~MaskContextEnabled(ctx, m.level) \/ ~EnabledMask(ctx, m.mask)
    THEN {EarlyReturn}
    ELSE backendCall(v)

\* histogram.Time that does not run fn when the metric is not enabled.
histogramTimeSkipping(m, ctx, fnErr) ==
    IF ~MaskContextEnabled(ctx, m.level) \/ ~EnabledMask(ctx, m.mask)
    THEN {EarlyReturn}
    ELSE { [EarlyReturn EXCEPT !.fnRuns = 1, !.calls = 1, !.berr = e, !.err = fnErr] :
             e \in BackendErrors }

\* histogram.Time: fn runs either way; when enabled the duration is observed,
\* the result of h.backend.Observe is discarded and fn's error returned.
histogramTime(m, ctx, fnErr) ==
    IF ~MaskContextEnabled(ctx, m.level) \/ ~EnabledMask(ctx, m.mask)
    THEN { [EarlyReturn EXCEPT !.fnRuns = 1, !.err = fnErr] }
    ELSE { [EarlyReturn EXCEPT !.fnRuns = 1, !.calls = 1, !.berr = e, !.err = fnErr] :
             e \in BackendErrors }

\* noopHistogram.Time: return fn()
noopTime(fnErr) == { [EarlyReturn EXCEPT !.fnRuns = 1, !.err = fnErr] }

\* An operation on the handle m: noopCounter.Inc and the like return nil;
\* timer.Record is histogram.Observe.
engineOp(m, op, ctx, v, fnErr) ==
    IF op = "Time"
    THEN IF m.real THEN histogramTime(m, ctx, fnErr) ELSE noopTime(fnErr)
    ELSE IF m.real THEN gatedOp(m, ctx, v) ELSE {EarlyReturn}

EngineOps(kind) ==
    CASE kind = "Counter" -> {"Inc", "Add"}
      [] kind = "Histogram" -> {"Observe", "Time"}
      [] kind = "Timer" -> {"Record"}
      [] OTHER -> {}

NoEngineCall ==
    [op |-> "none", ctx |-> NewMaskContext(LevelDisabled, MaskNone), value |-> 0,
     fnErr |-> "nil", out |-> EarlyReturn]

\* group.Context of the mask-aware engine
EngineContext == NewMaskContext(engine.level, engine.mask)

\* group.SetLevel: sets the level and drops the cached factory.
EngSetLevel(level) ==
    /\ engine' = [engine EXCEPT !.level = level, !.factory = NilFactory,
                                !.call = [NoEngineCall EXCEPT !.op = "SetLevel"]]
    /\ UNCHANGED << groupVars, fn, registry, restVars >>

\* group.SetMask: sets the mask and drops the cached factory.
EngSetMask(mask) ==
    /\ engine' = [engine EXCEPT !.mask = mask, !.factory = NilFactory,
                                !.call = [NoEngineCall EXCEPT !.op = "SetMask"]]
    /\ UNCHANGED << groupVars, fn, registry, restVars >>

\* g.Factory().Counter(name, level, mask) and its siblings: the handle the
\* caller holds from now on, with a backend of its own.
EngRequest(kind, level, mask) ==
    /\ engine' = [engine EXCEPT
                    !.factory = groupFactory(engine),
                    !.m = factoryMetric(groupFactory(engine), kind, level, mask),
                    !.asked = NewMaskContext(level, mask),
                    !.total = 0,
                    !.call = [NoEngineCall EXCEPT
                                !.op = "Request",
                                !.ctx = NewMaskContext(level, mask)]]
    /\ UNCHANGED << groupVars, fn, registry, restVars >>

\* An operation on the handle held, with any context.
EngOp(op, ctx, v, fnErr) ==
    /\ op \in EngineOps(engine.m.kind)
    /\ engine.total + v <= MaxTotal
    /\ \E r \in engineOp(engine.m, op, ctx, v, fnErr) :
          engine' = [engine EXCEPT
                       !.total = @ + r.added,
                       !.call = [op |-> op, ctx |-> ctx, value |-> v,
                                 fnErr |-> fnErr, out |-> r]]
    /\ UNCHANGED << groupVars, fn, registry, restVars >>

\* NewManager(backend) and manager.Group(name): the group starts with the
\* manager's defaults.
EngineInit ==
    /\ GroupIdle /\ fn = NoFn /\ registry = NoRegistry /\ RestIdle
    /\ engine = [on |-> TRUE, level |-> LevelImportant, mask |-> MaskProduction,
                 factory |-> NilFactory, m |-> NoMetric,
                 asked |-> NewMaskContext(LevelDisabled, MaskNone), total |-> 0,
                 call |-> NoEngineCall]

EngineNext ==
    \/ \E level \in EngineLevels : EngSetLevel(level)
    \/ \E mask \in EngineMasks : EngSetMask(mask)
    \/ \E kind \in EngineKinds, level \in EngineLevels \ {LevelDisabled},
          mask \in EngineMasks : EngRequest(kind, level, mask)
    \/ \E op \in {"Inc", "Observe", "Record"},
          ctx \in {EngineContext} \cup
                  { NewMaskContext(l, k) : l \in EngineLevels, k \in EngineMasks } :
          EngOp(op, ctx, IF op = "Inc" THEN 1 ELSE 0, "nil")
    \/ \E v \in AddValues,
          ctx \in {EngineContext} \cup
                  { NewMaskContext(l, k) : l \in EngineLevels, k \in EngineMasks } :
          EngOp("Add", ctx, v, "nil")
    \/ \E fnErr \in FnErrors,
          ctx \in {EngineContext} \cup
                  { NewMaskContext(l, k) : l \in EngineLevels, k \in EngineMasks } :
          EngOp("Time", ctx, 0, fnErr)

EngineSpec == EngineInit /\ [][EngineNext]_vars

\* C13: in the mask-aware engine Inc and Add reach the backend only if the
\* metric's level is enabled by the context's level and its mask shares a bit
\* with the context's mask; in a group at level Critical with mask Essential,
\* under the group's context, a counter declared (Debug, PerUser) makes no
\* backend call on Inc, a counter declared (Critical, Counters) makes exactly
\* one, and Add(ctx, 5) raises the backend's total by 5.
C13_GateHolds ==
    LET c == engine.call
        m == engine.m
        here == /\ engine.on
                /\ engine.level = LevelCritical
                /\ engine.mask = MaskEssential
                /\ ~engine.factory.nil
                /\ m.kind = "Counter"
                /\ c.op \in {"Inc", "Add"}
                /\ c.ctx = EngineContext
    IN  /\ (engine.on /\ c.op \in {"Inc", "Add"} /\ c.out.calls > 0) =>
              /\ m.real
              /\ m.level <= c.ctx.level
              /\ c.ctx.level # LevelDisabled
              /\ (c.ctx.mask \cap m.mask) # {}
        /\ (here /\ engine.asked = NewMaskContext(LevelDebug, MaskPerUser)) =>
              c.out.calls = 0
        /\ (here /\ engine.asked = NewMaskContext(LevelCritical, MaskCounters)) =>
              /\ c.out.calls = 1
              /\ (c.op = "Add" /\ c.out.berr = "nil") => c.out.added = c.value

C13_TotalRaised ==
    [][(/\ engine'.call.op = "Add"
        /\ engine'.call.out.calls = 1
        /\ engine'.call.out.berr = "nil")
       => engine'.total = engine.total + 5]_vars

C13_MaskAndLevelGate == []C13_GateHolds /\ C13_TotalRaised

C13_Witness ==
    /\ engine.on
    /\ engine.level = LevelCritical
    /\ engine.mask = MaskEssential
    /\ ~engine.factory.nil
    /\ engine.asked = NewMaskContext(LevelCritical, MaskCounters)
    /\ engine.m.real
    /\ engine.call.op = "Add"
    /\ engine.call.ctx = EngineContext
    /\ engine.call.out.calls = 1
    /\ engine.total = 6

\* C14: Time(ctx, fn) runs fn exactly once and returns exactly fn's error,
\* whether the metric is real or a noop and whether or not ctx enables it;
\* the backend gets one Observe when the metric is real and enabled, none
\* otherwise.
C14_TimeRunsFn ==
    LET c == engine.call
        m == engine.m
        enabled == /\ m.real
                   /\ MaskContextEnabled(c.ctx, m.level)
                   /\ EnabledMask(c.ctx, m.mask)
    IN  (engine.on /\ c.op = "Time") =>
           /\ c.out.fnRuns = 1
           /\ c.out.err = c.fnErr
           /\ c.out.calls = (IF enabled THEN 1 ELSE 0)

C14_Witness ==
    /\ engine.on
    /\ engine.call.op = "Time"
    /\ engine.m.real
    /\ engine.call.fnErr = "fn error"
    /\ engine.call.ctx.level = LevelDisabled
    /\ engine.call.out.fnRuns = 1
    /\ engine.call.out.calls = 0

\* C15 as stated: every operation that returns an error and called the
\* backend returns the backend's error unchanged.
C15_BackendErrorReturned ==
    (engine.on /\ engine.call.out.calls > 0) =>
        engine.call.out.err = engine.call.out.berr

\* C15: Inc, Add, Observe and Record return the backend's error unchanged
\* whenever they called the backend; Time returns fn's error and discards
\* the error of the Observe it made.
C15_BackendErrorReturnedExceptTime ==
    LET c == engine.call
    IN  (engine.on /\ c.out.calls > 0) =>
           /\ c.op \in {"Inc", "Add", "Observe", "Record", "Time"}
           /\ c.op # "Time" => c.out.err = c.out.berr
           /\ c.op = "Time" => c.out.err = c.fnErr

C15_Witness ==
    /\ engine.on
    /\ engine.call.op = "Record"
    /\ engine.call.out.calls = 1
    /\ engine.call.out.berr = "backend error"
    /\ engine.call.out.err = "backend error"

\* ---------------------------------------------------------- the registry
\* registry.groups maps a name to its *group; a group is given an id when
\* newGroup builds it, so that two Groups are the same exactly when their ids
\* are.  registry.made counts the groups built, registry.setTo is the level
\* the registry was last given (kept for the properties), registry.call the
\* last call and what it returned.
RegistryNames == {"g", "h"}
RegistryBackends == {"b1", "b2"}
RegistryMetricNames == {"a"}
LevelArgs ==
    {<< >>} \cup { << l >> : l \in LevelChoices }
            \cup { s \in { << l1, l2 >> : l1 \in LevelChoices, l2 \in LevelChoices } :
                       s[1] # s[2] }

\* slices.Min that takes the first element.
slicesFirst(level) == level[1]

\* slices.Min(level)
slicesMin(level) ==
    CHOOSE x \in Range(level) : \A y \in Range(level) : x <= y

\* newGroup(backend, name, level)
newGroup(backend, name, level, id) ==
    [id |-> id, name |-> name, minLevel |-> level, backend |-> backend,
     basics |-> EmptyMap]

\* registry.NewGroup that builds a Group whether or not the name is taken.
registryNewGroupAlways(r, name, backend, level) ==
    LET lowest == slicesMin(IF Len(level) = 0 THEN << r.globalLevel >> ELSE level)
        group == newGroup(backend, name, lowest, r.made + 1)
    IN  [r EXCEPT !.groups = (name :> group) @@ @, !.made = @ + 1]

\* registry.NewGroup: the registry afterwards; the Group returned is
\* groups[name].
registryNewGroup(r, name, backend, level) ==
    IF name \in DOMAIN r.groups
    THEN r
    ELSE LET lowest == slicesMin(IF Len(level) = 0 THEN << r.globalLevel >>
                                   ELSE level)
             group == newGroup(backend, name, lowest, r.made + 1)
         IN  [r EXCEPT !.groups = (name :> group) @@ @, !.made = @ + 1]

\* group.SetGroupLevel on a group of the registry.
registrySetGroupLevel(g, level, replaceNoops) ==
    [g EXCEPT !.minLevel = level,
              !.basics = IF replaceNoops /\ Enabled(level, level)
                         THEN convertNoops(@)
                         ELSE [n \in DOMAIN @ |-> SetLevel(@[n], level)]]

\* registry.SetGlobalLevel that sets the default and leaves the groups alone.
registrySetGlobalLevelDefaultOnly(r, level, replaceNoops) ==
    [r EXCEPT !.globalLevel = level]

\* registry.SetGlobalLevel
registrySetGlobalLevel(r, level, replaceNoops) ==
    [r EXCEPT !.globalLevel = level,
              !.groups = [n \in DOMAIN @ |->
                            registrySetGroupLevel(@[n], level, replaceNoops)]]

\* registry.GlobalContext
registryGlobalContext(r) == NewContext(r.globalLevel)

\* group.Context of a group of the registry
groupContext(g) == NewContext(g.minLevel)

\* group.Counter on a group of the registry: the tracked metric when there
\* is one, else a noop or a backend counter, tracked under the prefixed name.
groupCounter(g, name, level) ==
    IF (g.name \o "_" \o name) \in DOMAIN g.basics
    THEN g
    ELSE [g EXCEPT !.basics =
            ((g.name \o "_" \o name) :>
                newBaseSwitchableMetric(
                    IF ~Enabled(level, g.minLevel)
                    THEN newNoop("Counter", g.name \o "_" \o name, "help", level)
                    ELSE newBase("Counter", g.name \o "_" \o name, "help", level, 1)))
            @@ @]

NoRegistryCall ==
    [op |-> "none", name |-> "", backend |-> "", level |-> << >>,
     flag |-> FALSE, existed |-> FALSE, ret |-> 0,
     groups |-> EmptyMap, fault |-> FALSE]

\* Config values: a global level and a level for each of some group names,
\* with the zero LevelOpts; the orders in which a range over config.Groups may
\* visit the names.
ConfigLevels == {LevelCritical, LevelDebug}
ConfigGroups ==
    UNION { [names -> ConfigLevels] : names \in SUBSET RegistryNames }
ConfigOrders(groups) ==
    { order \in UNION { [1 .. n -> DOMAIN groups] : n \in {Cardinality(DOMAIN groups)} } :
         \A i \in DOMAIN order, j \in DOMAIN order : order[i] = order[j] => i = j }

\* registry.Group: the Group of that name, or nil
registryGroup(r, name) == name \in DOMAIN r.groups

\* The loop of ApplyConfig over config.Groups in the given order: for each name
\* manager.Group(name) and SetGroupLevel on what it returns; the call on a nil
\* Group faults and ends the loop.
RECURSIVE applyGroups(_, _, _)
applyGroups(r, groups, order) ==
    IF order = << >>
    THEN [r |-> r, fault |-> FALSE]
    ELSE IF ~registryGroup(r, Head(order))
         THEN [r |-> r, fault |-> TRUE]
         ELSE applyGroups(
                 [r EXCEPT !.groups[Head(order)] =
                      registrySetGroupLevel(@, groups[Head(order)], FALSE)],
                 groups, Tail(order))

\* ApplyConfig(manager, config)
ApplyConfig(r, level, groups, order) ==
    applyGroups(registrySetGlobalLevel(r, level, FALSE), groups, order)

RegApplyConfig(level, groups, order) ==
    /\ LET res == ApplyConfig(registry, level, groups, order) IN
       registry' =
         [res.r EXCEPT
            !.setTo = level,
            !.call = [NoRegistryCall EXCEPT
                        !.op = "ApplyConfig", !.level = << level >>,
                        !.groups = groups, !.fault = res.fault]]
    /\ UNCHANGED << groupVars, fn, engine, restVars >>

RegNewGroup(name, backend, level) ==
    /\ registry' =
         [registryNewGroup(registry, name, backend, level) EXCEPT
            !.call = [NoRegistryCall EXCEPT
                        !.op = "NewGroup", !.name = name, !.backend = backend,
                        !.level = level,
                        !.existed = (name \in DOMAIN registry.groups),
                        !.ret = registryNewGroup(registry, name, backend,
                                                 level).groups[name].id]]
    /\ UNCHANGED << groupVars, fn, engine, restVars >>

RegSetGlobalLevel(level, replaceNoops) ==
    /\ registry' =
         [registrySetGlobalLevel(registry, level, replaceNoops) EXCEPT
            !.setTo = level,
            !.call = [NoRegistryCall EXCEPT
                        !.op = "SetGlobalLevel", !.level = << level >>,
                        !.flag = replaceNoops]]
    /\ UNCHANGED << groupVars, fn, engine, restVars >>

RegGlobalContext ==
    /\ registry' =
         [registry EXCEPT
            !.call = [NoRegistryCall EXCEPT
                        !.op = "GlobalContext",
                        !.ret = registryGlobalContext(registry)]]
    /\ UNCHANGED << groupVars, fn, engine, restVars >>

RegCounter(gname, name, level) ==
    /\ gname \in DOMAIN registry.groups
    /\ registry' =
         [registry EXCEPT
            !.groups[gname] = groupCounter(@, name, level),
            !.call = [NoRegistryCall EXCEPT
                        !.op = "Counter", !.name = gname, !.level = << level >>]]
    /\ UNCHANGED << groupVars, fn, engine, restVars >>

\* NewRegistry(level)
RegistryInit ==
    /\ GroupIdle /\ fn = NoFn /\ engine = NoEngine /\ RestIdle
    /\ \E level \in LevelChoices :
          registry = [on |-> TRUE, globalLevel |-> level, groups |-> EmptyMap,
                      made |-> 0, setTo |-> level, call |-> NoRegistryCall]

RegistryNext ==
    \/ \E name \in RegistryNames, backend \in RegistryBackends, level \in LevelArgs :
          RegNewGroup(name, backend, level)
    \/ \E level \in LevelChoices, replaceNoops \in BOOLEAN :
          RegSetGlobalLevel(level, replaceNoops)
    \/ RegGlobalContext
    \/ \E gname \in RegistryNames, name \in RegistryMetricNames,
          level \in DeclaredLevels : RegCounter(gname, name, level)

RegistrySpec == RegistryInit /\ [][RegistryNext]_vars

\* C16: NewGroup with a name the registry already has returns the Group
\* registered under it and leaves its backend, minimum level and tracked
\* metrics as they were; the registry never holds two Groups for one name.
C16_NewGroupIdempotent ==
    /\ [][(registry'.call.op = "NewGroup" /\ registry'.call.existed) =>
            /\ registry'.groups = registry.groups
            /\ registry'.call.ret = registry.groups[registry'.call.name].id]_vars
    /\ [](registry.on =>
            /\ registry.made = Cardinality(DOMAIN registry.groups)
            /\ \A n1 \in DOMAIN registry.groups, n2 \in DOMAIN registry.groups :
                  (registry.groups[n1].id = registry.groups[n2].id) = (n1 = n2)
            /\ \A n \in DOMAIN registry.groups : registry.groups[n].name = n)

C16_Witness ==
    /\ registry.on
    /\ registry.call.op = "NewGroup"
    /\ registry.call.existed
    /\ registry.call.name = "g"
    /\ registry.call.backend = "b2"
    /\ registry.call.level = << LevelDebug >>
    /\ registry.groups["g"].backend = "b1"
    /\ registry.groups["g"].minLevel = LevelCritical
    /\ registry.groups["g"].basics # EmptyMap

\* C17: a Group that NewGroup creates has the registry's global level as its
\* minimum when no level is given and the lowest of the given levels
\* otherwise, and its Context() enables exactly the levels that minimum does.
C17_NewGroupLevel ==
    [][(registry'.call.op = "NewGroup" /\ ~registry'.call.existed) =>
         LET g == registry'.groups[registry'.call.name]
             level == registry'.call.level
         IN  /\ Len(level) = 0 => g.minLevel = registry.globalLevel
             /\ Len(level) > 0 =>
                   /\ \E i \in DOMAIN level : g.minLevel = level[i]
                   /\ \A i \in DOMAIN level : g.minLevel <= level[i]
             /\ \A l \in Levels :
                   ContextEnabled(groupContext(g), l) = Enabled(l, g.minLevel)]_vars

C17_Witness ==
    /\ registry.on
    /\ registry.call.op = "NewGroup"
    /\ ~registry.call.existed
    /\ registry.call.level = << LevelDebug, LevelCritical >>
    /\ registry.globalLevel = LevelDisabled
    /\ registry.groups[registry.call.name].minLevel = LevelCritical

\* C18: after SetGlobalLevel(L, opts) the registry's default is L,
\* GlobalContext() gates against L, every Group the registry holds has minimum
\* level L, and a Group created later without a level starts at L.
C18_GlobalLevelPropagates ==
    /\ [][(registry'.call.op = "SetGlobalLevel") =>
            LET L == registry'.call.level[1]
            IN  /\ registry'.globalLevel = L
                /\ \A l \in Levels :
                      ContextEnabled(registryGlobalContext(registry'), l) = Enabled(l, L)
                /\ DOMAIN registry'.groups = DOMAIN registry.groups
                /\ \A n \in DOMAIN registry'.groups :
                      registry'.groups[n].minLevel = L]_vars
    /\ [][(/\ registry'.call.op = "NewGroup"
           /\ ~registry'.call.existed
           /\ registry'.call.level = << >>) =>
            registry'.groups[registry'.call.name].minLevel = registry.setTo]_vars

C18_Witness ==
    /\ registry.on
    /\ registry.call.op = "SetGlobalLevel"
    /\ registry.call.level = << LevelDebug >>
    /\ DOMAIN registry.groups = RegistryNames
    /\ \A n \in RegistryNames : registry.groups[n].minLevel = LevelDebug
    /\ \E n \in RegistryNames : registry.groups[n].basics # EmptyMap

\* --------------------------------------------------- level and mask text
\* A text is the sequence of its characters, so that strings.ToUpper,
\* strings.Split, strings.TrimSpace and strings.Join are computed and not
\* assumed.
LowerLetters == << "a", "b", "c", "d", "e", "f", "g", "h", "i", "j", "k", "l", "m", "n", "o", "p", "q", "r", "s", "t", "u", "v", "w", "x", "y", "z" >>
UpperLetters == << "A", "B", "C", "D", "E", "F", "G", "H", "I", "J", "K", "L", "M", "N", "O", "P", "Q", "R", "S", "T", "U", "V", "W", "X", "Y", "Z" >>

\* strings.ToUpper on one character, and on a text
ToUpperRune(c) ==
    IF \E i \in DOMAIN LowerLetters : LowerLetters[i] = c
    THEN UpperLetters[CHOOSE i \in DOMAIN LowerLetters : LowerLetters[i] = c]
    ELSE c
ToUpper(s) == [i \in DOMAIN s |-> ToUpperRune(s[i])]

LevelDisabledStr == << "D", "I", "S", "A", "B", "L", "E", "D" >>
LevelCriticalStr == << "C", "R", "I", "T", "I", "C", "A", "L" >>
LevelImportantStr == << "I", "M", "P", "O", "R", "T", "A", "N", "T" >>
LevelDebugStr == << "D", "E", "B", "U", "G" >>
LevelVerboseStr == << "V", "E", "R", "B", "O", "S", "E" >>
LevelUnknownStr == << "U", "N", "K", "N", "O", "W", "N" >>

\* Level.String
LevelString(l) ==
    CASE l = LevelDisabled -> LevelDisabledStr
      [] l = LevelCritical -> LevelCriticalStr
      [] l = LevelImportant -> LevelImportantStr
      [] l = LevelDebug -> LevelDebugStr
      [] l = LevelVerbose -> LevelVerboseStr
      [] OTHER -> LevelUnknownStr

\* ParseLevel that compares the text as written.
ParseLevelCaseSensitive(s) ==
    CASE s = LevelDisabledStr -> LevelDisabled
      [] s = LevelCriticalStr -> LevelCritical
      [] s = LevelImportantStr -> LevelImportant
      [] s = LevelDebugStr -> LevelDebug
      [] s = LevelVerboseStr -> LevelVerbose
      [] OTHER -> LevelImportant

\* ParseLevel: switch strings.ToUpper(s), default LevelImportant
ParseLevel(s) ==
    CASE ToUpper(s) = LevelDisabledStr -> LevelDisabled
      [] ToUpper(s) = LevelCriticalStr -> LevelCritical
      [] ToUpper(s) = LevelImportantStr -> LevelImportant
      [] ToUpper(s) = LevelDebugStr -> LevelDebug
      [] ToUpper(s) = LevelVerboseStr -> LevelVerbose
      [] OTHER -> LevelImportant

\* Level values outside the five named ones, for Level.String
OtherLevels == {0 - 2, 4}

\* The texts ParseLevel is applied to: the five names as written, in lower
\* case and capitalised, and texts that name no level.
LevelTexts ==
    { LevelString(l) : l \in Levels \cup OtherLevels }
    \cup { << "d", "i", "s", "a", "b", "l", "e", "d" >>,
           << "c", "r", "i", "t", "i", "c", "a", "l" >>,
           << "i", "m", "p", "o", "r", "t", "a", "n", "t" >>,
           << "d", "e", "b", "u", "g" >>,
           << "v", "e", "r", "b", "o", "s", "e" >> }
    \cup { << "D", "i", "s", "a", "b", "l", "e", "d" >>,
           << "C", "r", "i", "t", "i", "c", "a", "l" >>,
           << "i", "m", "P", "o", "r", "t", "a", "n", "t" >>,
           << "D", "e", "b", "u", "g" >>,
           << "v", "E", "R", "B", "O", "S", "E" >> }
    \cup { << >>,
           << " ", "D", "E", "B", "U", "G" >>,
           << "D", "E", "B", "U", "G", " " >>,
           << "D", "E", "B", "U", "G", "X" >>,
           << "D", "E", "B", "U" >>,
           << "0" >>,
           << "i", "n", "f", "o" >>,
           << "N", "O", "N", "E" >>,
           << "C", "R", "I", "T", "I", "C", "A", "L", "|", "D", "E", "B", "U", "G" >> }

\* ParseLevel(s) on a text
CallParseLevel(s) ==
    /\ fn = NoFn
    /\ fn' = [op |-> "ParseLevel", a |-> s, b |-> 0, res |-> ParseLevel(s)]
    /\ UNCHANGED << groupVars, registry, engine, restVars >>

\* ParseLevel(l.String()) on a level
CallParseLevelString(l) ==
    /\ fn = NoFn
    /\ fn' = [op |-> "ParseLevelString", a |-> l, b |-> LevelString(l),
              res |-> ParseLevel(LevelString(l))]
    /\ UNCHANGED << groupVars, registry, engine, restVars >>

MaskCountersStr == << "C", "O", "U", "N", "T", "E", "R", "S" >>
MaskLatencyStr == << "L", "A", "T", "E", "N", "C", "Y" >>
MaskThroughputStr == << "T", "H", "R", "O", "U", "G", "H", "P", "U", "T" >>
MaskErrorsStr == << "E", "R", "R", "O", "R", "S" >>
MaskResourcesStr == << "R", "E", "S", "O", "U", "R", "C", "E", "S" >>
MaskQueuesStr == << "Q", "U", "E", "U", "E", "S" >>
MaskConnectionsStr == << "C", "O", "N", "N", "E", "C", "T", "I", "O", "N", "S" >>
MaskCacheStr == << "C", "A", "C", "H", "E" >>
MaskCircuitBreakerStr == << "C", "I", "R", "C", "U", "I", "T", "_", "B", "R", "E", "A", "K", "E", "R" >>
MaskHealthStr == << "H", "E", "A", "L", "T", "H" >>
MaskSecurityStr == << "S", "E", "C", "U", "R", "I", "T", "Y" >>
MaskPerformanceStr == << "P", "E", "R", "F", "O", "R", "M", "A", "N", "C", "E" >>
MaskInternalStr == << "I", "N", "T", "E", "R", "N", "A", "L" >>
MaskPerUserStr == << "P", "E", "R", "_", "U", "S", "E", "R" >>
MaskPerRequestStr == << "P", "E", "R", "_", "R", "E", "Q", "U", "E", "S", "T" >>
MaskDetailedStr == << "D", "E", "T", "A", "I", "L", "E", "D" >>
MaskNoneStr == << "N", "O", "N", "E" >>
MaskEssentialStr == << "E", "S", "S", "E", "N", "T", "I", "A", "L" >>
MaskProductionStr == << "P", "R", "O", "D", "U", "C", "T", "I", "O", "N" >>
MaskAllStr == << "A", "L", "L" >>

\* The flags and their names, in the order Mask.String and ParseMask list them.
FlagTable ==
    << [flag |-> MaskCounters, name |-> MaskCountersStr],
       [flag |-> MaskLatency, name |-> MaskLatencyStr],
       [flag |-> MaskThroughput, name |-> MaskThroughputStr],
       [flag |-> MaskErrors, name |-> MaskErrorsStr],
       [flag |-> MaskResources, name |-> MaskResourcesStr],
       [flag |-> MaskQueues, name |-> MaskQueuesStr],
       [flag |-> MaskConnections, name |-> MaskConnectionsStr],
       [flag |-> MaskCache, name |-> MaskCacheStr],
       [flag |-> MaskCircuitBreaker, name |-> MaskCircuitBreakerStr],
       [flag |-> MaskHealth, name |-> MaskHealthStr],
       [flag |-> MaskSecurity, name |-> MaskSecurityStr],
       [flag |-> MaskPerformance, name |-> MaskPerformanceStr],
       [flag |-> MaskInternal, name |-> MaskInternalStr],
       [flag |-> MaskPerUser, name |-> MaskPerUserStr],
       [flag |-> MaskPerRequest, name |-> MaskPerRequestStr],
       [flag |-> MaskDetailed, name |-> MaskDetailedStr] >>

\* strings.Split(s, sep) for a one-character separator
RECURSIVE Split(_, _)
Split(s, sep) ==
    IF \A i \in DOMAIN s : s[i] # sep
    THEN << s >>
    ELSE LET k == CHOOSE i \in DOMAIN s :
                     s[i] = sep /\ \A j \in 1 .. (i - 1) : s[j] # sep
         IN  << SubSeq(s, 1, k - 1) >> \o Split(SubSeq(s, k + 1, Len(s)), sep)

\* strings.TrimSpace
IsSpace(c) == c \in {" ", "\t"}
RECURSIVE TrimSpace(_)
TrimSpace(s) ==
    IF s = << >> THEN s
    ELSE IF IsSpace(s[1]) THEN TrimSpace(Tail(s))
    ELSE IF IsSpace(s[Len(s)]) THEN TrimSpace(SubSeq(s, 1, Len(s) - 1))
    ELSE s

\* strings.Join(parts, sep)
RECURSIVE Join(_, _)
Join(parts, sep) ==
    IF parts = << >> THEN << >>
    ELSE IF Len(parts) = 1 THEN parts[1]
    ELSE parts[1] \o << sep >> \o Join(Tail(parts), sep)

\* One case of the switch over a token in ParseMask: the flag the token
\* names, MaskNone when no case matches.
flagNamed(token) ==
    IF \E i \in DOMAIN FlagTable : FlagTable[i].name = token
    THEN FlagTable[CHOOSE i \in DOMAIN FlagTable : FlagTable[i].name = token].flag
    ELSE MaskNone

\* The loop of ParseMask over the tokens: mask = mask.Add(flag) per match.
RECURSIVE parseFlags(_, _)
parseFlags(flags, mask) ==
    IF flags = << >> THEN mask
    ELSE parseFlags(Tail(flags), MaskAdd(mask, flagNamed(TrimSpace(flags[1]))))

\* ParseMask that does not trim the tokens.
ParseMaskUntrimmed(s) ==
    IF s = << >> THEN MaskProduction
    ELSE CASE ToUpper(s) = MaskNoneStr -> MaskNone
           [] ToUpper(s) = MaskEssentialStr -> MaskEssential
           [] ToUpper(s) = MaskProductionStr -> MaskProduction
           [] ToUpper(s) = MaskAllStr -> MaskAll
           [] OTHER ->
                LET flags == Split(ToUpper(s), "|")
                IN  UNION { flagNamed(flags[i]) : i \in DOMAIN flags }

\* ParseMask
ParseMask(s) ==
    IF s = << >> THEN MaskProduction
    ELSE CASE ToUpper(s) = MaskNoneStr -> MaskNone
           [] ToUpper(s) = MaskEssentialStr -> MaskEssential
           [] ToUpper(s) = MaskProductionStr -> MaskProduction
           [] ToUpper(s) = MaskAllStr -> MaskAll
           [] OTHER -> parseFlags(Split(ToUpper(s), "|"), MaskNone)

\* Mask.String ranges over a map, so the names come out in any order.  The
\* orders tried: every order for a mask of at most MaxPermuted flags, the
\* rotations of the table's order and of its reverse for a larger one.
MaxPermuted == 4
Reverse(s) == [i \in DOMAIN s |-> s[Len(s) + 1 - i]]
Rotate(s, k) == [i \in DOMAIN s |-> s[((i + k - 1) % Len(s)) + 1]]
flagsOf(m) == SelectSeq(FlagTable, LAMBDA e : MaskHas(m, e.flag))
Orders(parts) ==
    IF Len(parts) <= MaxPermuted
    THEN { [i \in DOMAIN parts |-> parts[p[i]]] :
             p \in { q \in [DOMAIN parts -> DOMAIN parts] :
                       \A i \in DOMAIN parts, j \in DOMAIN parts :
                          q[i] = q[j] => i = j } }
    ELSE { Rotate(parts, k) : k \in 0 .. (Len(parts) - 1) }
         \cup { Rotate(Reverse(parts), k) : k \in 0 .. (Len(parts) - 1) }

\* Mask.String: the texts it can return for m.
MaskString(m) ==
    IF m = MaskNone THEN {MaskNoneStr}
    ELSE IF m = MaskAll THEN {MaskAllStr}
    ELSE { Join([i \in DOMAIN parts |-> parts[i].name], "|") :
             parts \in Orders(flagsOf(m)) }

\* The tokens mask texts are built from: a text, the flag it names once
\* trimmed and upper-cased (MaskNone for no flag), and whether it names a
\* union.
MaskTokens ==
    { [text |-> << "C", "O", "U", "N", "T", "E", "R", "S" >>, flag |-> MaskCounters, union |-> FALSE],
      [text |-> << " ", "e", "r", "r", "o", "r", "s", " " >>, flag |-> MaskErrors, union |-> FALSE],
      [text |-> << "P", "e", "r", "_", "U", "s", "e", "r" >>, flag |-> MaskPerUser, union |-> FALSE],
      [text |-> << "C", "I", "R", "C", "U", "I", "T", "_", "B", "R", "E", "A", "K", "E", "R", "\t" >>, flag |-> MaskCircuitBreaker, union |-> FALSE],
      [text |-> << "f", "o", "o" >>, flag |-> MaskNone, union |-> FALSE],
      [text |-> << >>, flag |-> MaskNone, union |-> FALSE],
      [text |-> << "A", "L", "L" >>, flag |-> MaskNone, union |-> TRUE],
      [text |-> << "C", "O", "U", "N", "T", "E", "R" >>, flag |-> MaskNone, union |-> FALSE],
      [text |-> << "e", "s", "s", "e", "n", "t", "i", "a", "l" >>, flag |-> MaskNone, union |-> TRUE] }

MaxTokens == 3
TokenLists == UNION { [1 .. n -> MaskTokens] : n \in 1 .. MaxTokens }

\* The named-union texts, as written, in lower case and padded.
UnionTexts ==
    { MaskNoneStr, MaskEssentialStr, MaskProductionStr, MaskAllStr,
      << "n", "o", "n", "e" >>,
      << "E", "s", "s", "e", "n", "t", "i", "a", "l" >>,
      << "p", "r", "o", "d", "u", "c", "t", "i", "o", "n" >>,
      << "a", "L", "L" >>,
      << " ", "N", "O", "N", "E" >>,
      << "A", "L", "L", " " >>,
      << " " >> }

\* The masks Mask.String is applied to.
StringMasks ==
    MaskInputs \cup
    { UNION CategoryFlags,
      MaskCounters \cup MaskLatency \cup MaskCache \cup MaskDetailed,
      MaskQueues \cup MaskSecurity \cup MaskPerRequest }

\* ParseMask(s) on the text made of the tokens toks joined by "|"
CallParseMask(toks) ==
    /\ fn = NoFn
    /\ fn' = [op |-> "ParseMask",
              a |-> Join([i \in DOMAIN toks |-> toks[i].text], "|"),
              b |-> toks,
              res |-> ParseMask(Join([i \in DOMAIN toks |-> toks[i].text], "|"))]
    /\ UNCHANGED << groupVars, registry, engine, restVars >>

\* ParseMask(s) on a named-union text
CallParseMaskUnion(s) ==
    /\ fn = NoFn
    /\ fn' = [op |-> "ParseMaskUnion", a |-> s, b |-> 0, res |-> ParseMask(s)]
    /\ UNCHANGED << groupVars, registry, engine, restVars >>

\* ParseMask(m.String()) on a mask
CallParseMaskString(m) ==
    /\ fn = NoFn
    /\ \E s \in MaskString(m) :
          fn' = [op |-> "ParseMaskString", a |-> m, b |-> s, res |-> ParseMask(s)]
    /\ UNCHANGED << groupVars, registry, engine, restVars >>

\* The functions keep no state: every call is made from the idle state.
ParseInit == GroupIdle /\ fn = NoFn /\ registry = NoRegistry /\ engine = NoEngine /\ RestIdle

ParseNext ==
    \/ \E s \in LevelTexts : CallParseLevel(s)
    \/ \E l \in Levels \cup OtherLevels : CallParseLevelString(l)
    \/ \E toks \in TokenLists : CallParseMask(toks)
    \/ \E s \in UnionTexts : CallParseMaskUnion(s)
    \/ \E m \in StringMasks : CallParseMaskString(m)

ParseSpec == ParseInit /\ [][ParseNext]_vars

\* Whether two texts are equal up to the case of their letters.
EqualFold(s, t) ==
    /\ Len(s) = Len(t)
    /\ \A i \in DOMAIN s :
          \/ s[i] = t[i]
          \/ \E k \in DOMAIN LowerLetters :
                {s[i], t[i]} = {LowerLetters[k], UpperLetters[k]}

\* C21: ParseLevel returns a level for every text: the level whose name the
\* text is, whatever the case of its letters, and LevelImportant for every
\* other text; ParseLevel(l.String()) = l for each of the five levels.
C21_ParseLevelTotal ==
    /\ fn.op = "ParseLevel" =>
          /\ fn.res \in Levels
          /\ \A l \in Levels : EqualFold(fn.a, LevelString(l)) => fn.res = l
          /\ (\A l \in Levels : ~EqualFold(fn.a, LevelString(l))) =>
                fn.res = LevelImportant
    /\ (fn.op = "ParseLevelString" /\ fn.a \in Levels) => fn.res = fn.a

C21_Witness ==
    /\ fn.op = "ParseLevel"
    /\ fn.a = << "v", "E", "R", "B", "O", "S", "E" >>
    /\ fn.res = LevelVerbose

\* The named unions and their names.
UnionNames ==
    { << MaskNone, MaskNoneStr >>, << MaskEssential, MaskEssentialStr >>,
      << MaskProduction, MaskProductionStr >>, << MaskAll, MaskAllStr >> }
IsUnionText(s) == \E u \in UnionNames : EqualFold(s, u[2])

\* C22: for the empty text, and for a text none of whose tokens is a named
\* union or a flag name, ParseMask returns MaskProduction.
C22_UnparsedIsProduction ==
    (/\ fn.op = "ParseMask"
     /\ \/ fn.a = << >>
        \/ \A i \in DOMAIN fn.b : fn.b[i].flag = MaskNone /\ ~fn.b[i].union)
    => fn.res = MaskProduction

\* C23: ParseMask returns the named union for a text that is a union's name;
\* for any other non-empty text it returns the union of the flags its
\* "|"-separated tokens name, unknown tokens adding nothing; and
\* ParseMask(m.String()) = m for every mask m made of category flags only.
C23_ParseMaskUnion ==
    /\ fn.op \in {"ParseMask", "ParseMaskUnion"} =>
          \A u \in UnionNames : EqualFold(fn.a, u[2]) => fn.res = u[1]
    /\ (fn.op = "ParseMask" /\ fn.a # << >> /\ ~IsUnionText(fn.a)) =>
          fn.res = UNION { fn.b[i].flag : i \in DOMAIN fn.b }
    /\ (fn.op = "ParseMaskString" /\ fn.a \subseteq UNION CategoryFlags) =>
          fn.res = fn.a

C23_Witness ==
    /\ fn.op = "ParseMask"
    /\ Len(fn.b) = 3
    /\ fn.b[1].flag = MaskErrors
    /\ fn.b[2].flag = MaskNone
    /\ fn.b[3].flag = MaskPerUser
    /\ fn.res = MaskErrors \cup MaskPerUser

C23_RoundTripWitness ==
    /\ fn.op = "ParseMaskString"
    /\ fn.a = MaskProduction
    /\ fn.b[1] # "C"
    /\ fn.res = MaskProduction

\* -------------------------------------------------------------- contexts
\* A Context is a *metricsContext: a cell of contexts.heap, named by its
\* index.  contexts.level and contexts.mask are the level and mask of the
\* Group (or registry) the callers take contexts from; a cell records the
\* level and mask it was built with (built, kept for the properties) and
\* whether it is of the mask-aware kind.
MaxContexts == 3
ContextLevels == {LevelDisabled, LevelCritical, LevelDebug}
ContextMasks == {MaskNone, MaskCounters, MaskEssential}

\* &metricsContext{level: level, mask: mask}; the level-only kind has no mask.
newContextCell(masked, level, mask) ==
    [masked |-> masked, level |-> level,
     mask |-> IF masked THEN mask ELSE MaskNone,
     built |-> [level |-> level, mask |-> IF masked THEN mask ELSE MaskNone]]

\* WithLevel that sets the receiver's level and returns the receiver.
withLevelInPlace(heap, c, level) ==
    [heap |-> [heap EXCEPT ![c].level = level], ret |-> c]

\* metricsContext.WithLevel: a new cell with the level given and the
\* receiver's mask.
withLevel(heap, c, level) ==
    [heap |-> Append(heap, newContextCell(heap[c].masked, level, heap[c].mask)),
     ret |-> Len(heap) + 1]

\* metricsContext.WithMask: a new cell with the receiver's level and the
\* mask given.
withMask(heap, c, mask) ==
    [heap |-> Append(heap, newContextCell(TRUE, heap[c].level, mask)),
     ret |-> Len(heap) + 1]

\* group.Context, registry.GlobalContext: NewContext of the level (and mask)
\* in force.
contextOf(s, masked) ==
    [heap |-> Append(s.heap, newContextCell(masked, s.level, s.mask)),
     ret |-> Len(s.heap) + 1]

\* metricsContext.Enabled and EnabledMask on a cell
cellEnabled(cell, level) == Enabled(level, cell.level)
cellEnabledMask(cell, mask) == MaskHas(cell.mask, mask)

NoContextCall == [op |-> "none", recv |-> 0, level |-> LevelDisabled,
                  mask |-> MaskNone, ret |-> 0]

contextsReturn(r, call) ==
    /\ contexts' = [contexts EXCEPT !.heap = r.heap,
                                    !.call = [call EXCEPT !.ret = r.ret]]
    /\ UNCHANGED << groupVars, fn, registry, engine, switchable, guarded, lateVars >>

\* NewContext(level) and NewContext(level, mask)
CtxNew(masked, level, mask) ==
    /\ Len(contexts.heap) < MaxContexts
    /\ contextsReturn(
          [heap |-> Append(contexts.heap, newContextCell(masked, level, mask)),
           ret |-> Len(contexts.heap) + 1],
          [NoContextCall EXCEPT !.op = "NewContext", !.level = level, !.mask = mask])

\* g.Context(), registry.GlobalContext()
CtxContext(masked) ==
    /\ Len(contexts.heap) < MaxContexts
    /\ contextsReturn(contextOf(contexts, masked),
          [NoContextCall EXCEPT !.op = "Context", !.level = contexts.level,
                                !.mask = contexts.mask])

\* c.WithLevel(level)
CtxWithLevel(c, level) ==
    /\ Len(contexts.heap) < MaxContexts
    /\ contextsReturn(withLevel(contexts.heap, c, level),
          [NoContextCall EXCEPT !.op = "WithLevel", !.recv = c, !.level = level])

\* c.WithMask(mask), of the mask-aware kind
CtxWithMask(c, mask) ==
    /\ Len(contexts.heap) < MaxContexts
    /\ contexts.heap[c].masked
    /\ contextsReturn(withMask(contexts.heap, c, mask),
          [NoContextCall EXCEPT !.op = "WithMask", !.recv = c, !.mask = mask])

\* SetGroupLevel, SetGlobalLevel, group.SetLevel: the level in force changes;
\* no Context is reached from the Group.
CtxSetLevel(level) ==
    /\ contexts' = [contexts EXCEPT
                      !.level = level,
                      !.call = [NoContextCall EXCEPT !.op = "SetLevel",
                                                     !.level = level]]
    /\ UNCHANGED << groupVars, fn, registry, engine, switchable, guarded, lateVars >>

\* group.SetMask
CtxSetMask(mask) ==
    /\ contexts' = [contexts EXCEPT
                      !.mask = mask,
                      !.call = [NoContextCall EXCEPT !.op = "SetMask",
                                                     !.mask = mask]]
    /\ UNCHANGED << groupVars, fn, registry, engine, switchable, guarded, lateVars >>

ContextInit ==
    /\ GroupIdle /\ fn = NoFn /\ registry = NoRegistry /\ engine = NoEngine
    /\ switchable = NoSwitchable /\ guarded = NoGuarded /\ LateIdle
    /\ \E level \in ContextLevels, mask \in ContextMasks :
          contexts = [on |-> TRUE, level |-> level, mask |-> mask,
                      heap |-> << >>, call |-> NoContextCall]

ContextNext ==
    \/ \E masked \in BOOLEAN, level \in ContextLevels, mask \in ContextMasks :
          CtxNew(masked, level, mask)
    \/ \E masked \in BOOLEAN : CtxContext(masked)
    \/ \E c \in DOMAIN contexts.heap, level \in ContextLevels : CtxWithLevel(c, level)
    \/ \E c \in DOMAIN contexts.heap, mask \in ContextMasks : CtxWithMask(c, mask)
    \/ \E level \in ContextLevels : CtxSetLevel(level)
    \/ \E mask \in ContextMasks : CtxSetMask(mask)

ContextSpec == ContextInit /\ [][ContextNext]_vars

\* C24: no step changes a Context that exists: after WithLevel, WithMask,
\* SetLevel or SetMask every existing Context gives the verdicts it gave
\* before, so a Context taken from the Group gates against the level it was
\* built with; WithLevel and WithMask return a Context that is new, WithLevel
\* with the receiver's mask and WithMask with the receiver's level.
C24_ContextImmutable ==
    /\ [][\A c \in DOMAIN contexts.heap :
            /\ c \in DOMAIN contexts'.heap
            /\ \A l \in Levels :
                  cellEnabled(contexts'.heap[c], l) = cellEnabled(contexts.heap[c], l)
            /\ \A k \in CategoryFlags :
                  cellEnabledMask(contexts'.heap[c], k)
                     = cellEnabledMask(contexts.heap[c], k)]_vars
    /\ [][contexts'.call.op \in {"WithLevel", "WithMask"} =>
            LET ret == contexts'.heap[contexts'.call.ret]
                recv == contexts.heap[contexts'.call.recv]
            IN  /\ contexts'.call.ret \notin DOMAIN contexts.heap
                /\ contexts'.call.op = "WithLevel" =>
                      ret.level = contexts'.call.level /\ ret.mask = recv.mask
                /\ contexts'.call.op = "WithMask" =>
                      ret.level = recv.level /\ ret.mask = contexts'.call.mask]_vars
    /\ [](contexts.on =>
            \A c \in DOMAIN contexts.heap :
               /\ contexts.heap[c].level = contexts.heap[c].built.level
               /\ contexts.heap[c].mask = contexts.heap[c].built.mask)

C24_Witness ==
    /\ contexts.on
    /\ Len(contexts.heap) = 2
    /\ contexts.call.op = "SetLevel"
    /\ contexts.level = LevelDisabled
    /\ contexts.heap[1].level = LevelDebug
    /\ contexts.heap[2].level = LevelCritical
    /\ contexts.heap[2].mask = contexts.heap[1].mask
    /\ contexts.heap[1].mask = MaskEssential

\* C25: a request for a name that is tracked under another kind never
\* returns a handle: whenever a factory method returns, the Switchable it
\* returns is of the kind that was asked for.
C25_KindMismatchPanics ==
    (last.op = "Request" /\ last.h \in Handles) => sw[last.h].kind = last.kind

\* ------------------------------------------- a Switchable under its lock
\* One baseSwitchableMetric used by several goroutines.  switchable.readers
\* and switchable.writer are the holders of mu (a sync.RWMutex),
\* switchable.waiting is set while a Lock call waits, which stops later RLock
\* calls; switchable.impl names the implementation held, switchable.built the
\* implementations whose construction has finished.  Each goroutine has a
\* position pc and, for a delegated call, the implementation seen that the
\* call runs against.
Callers == {1, 2}
Owner == 3
MaxSwaps == 2

\* mu.Lock granted whatever the lock's state.
canLockAlways(m) == TRUE

\* sync.RWMutex: Lock is granted when nobody holds the lock.
canLock(m) == m.readers = {} /\ m.writer = 0

\* sync.RWMutex: RLock is granted when no writer holds the lock or waits.
canRLock(m) == m.writer = 0 /\ ~m.waiting

switchableStep(next) ==
    /\ switchable' = next
    /\ UNCHANGED << groupVars, fn, registry, engine, contexts, guarded, lateVars >>

\* switchableCounter.Inc: s.mu.RLock()
OpRLock(t) ==
    /\ switchable.pc[t] = "idle"
    /\ canRLock(switchable)
    /\ switchableStep([switchable EXCEPT !.readers = @ \cup {t}, !.pc[t] = "locked"])

\* s.impl.Inc(ctx): the implementation is read and the call starts
OpCall(t) ==
    /\ switchable.pc[t] = "locked"
    /\ switchableStep([switchable EXCEPT !.seen[t] = switchable.impl,
                                         !.pc[t] = "call"])

\* the delegated call returns, on the implementation the cell holds now
OpReturn(t) ==
    /\ switchable.pc[t] = "call"
    /\ switchableStep([switchable EXCEPT !.ended[t] = switchable.impl,
                                         !.pc[t] = "done"])

\* defer s.mu.RUnlock()
OpRUnlock(t) ==
    /\ switchable.pc[t] = "done"
    /\ switchableStep([switchable EXCEPT !.readers = @ \ {t}, !.pc[t] = "idle"])

\* baseSwitchableMetric.SetLevel: b.mu.RLock()
SetLevelRLock(t) ==
    /\ switchable.pc[t] = "idle"
    /\ canRLock(switchable)
    /\ switchableStep([switchable EXCEPT !.readers = @ \cup {t},
                                         !.pc[t] = "setlocked"])

\* b.impl.SetLevel(level): baseMetric.SetLevel starts to write b.level ...
SetLevelWrite(t) ==
    /\ switchable.pc[t] = "setlocked"
    /\ switchableStep([switchable EXCEPT !.pc[t] = "writing"])

\* ... and has written it; the deferred RUnlock follows.
SetLevelWritten(t) ==
    /\ switchable.pc[t] = "writing"
    /\ switchableStep([switchable EXCEPT !.pc[t] = "done"])

\* The owning Group starts to build a new implementation ...
SwapConstruct ==
    /\ switchable.pc[Owner] = "idle"
    /\ switchable.swaps < MaxSwaps
    /\ switchableStep([switchable EXCEPT !.pc[Owner] = "building"])

\* ... and has built it.
SwapBuilt ==
    /\ switchable.pc[Owner] = "building"
    /\ switchableStep([switchable EXCEPT
                         !.built = @ \cup {switchable.swaps + 2},
                         !.pc[Owner] = "built"])

\* switchImpl: b.mu.Lock() is called ...
SwapLockWait ==
    /\ switchable.pc[Owner] = "built"
    /\ switchableStep([switchable EXCEPT !.waiting = TRUE, !.pc[Owner] = "waiting"])

\* ... and granted
SwapLock ==
    /\ switchable.pc[Owner] = "waiting"
    /\ canLock(switchable)
    /\ switchableStep([switchable EXCEPT !.writer = Owner, !.waiting = FALSE,
                                         !.pc[Owner] = "locked"])

\* b.impl = newImpl.(M)
SwapWrite ==
    /\ switchable.pc[Owner] = "locked"
    /\ switchableStep([switchable EXCEPT !.impl = switchable.swaps + 2,
                                         !.swaps = @ + 1,
                                         !.pc[Owner] = "done"])

\* defer b.mu.Unlock()
SwapUnlock ==
    /\ switchable.pc[Owner] = "done"
    /\ switchableStep([switchable EXCEPT !.writer = 0, !.pc[Owner] = "idle"])

\* newBaseSwitchableMetric(impl): the cell holds its first implementation.
SwitchInit ==
    /\ GroupIdle /\ fn = NoFn /\ registry = NoRegistry /\ engine = NoEngine
    /\ contexts = NoContexts /\ guarded = NoGuarded /\ LateIdle
    /\ switchable = [on |-> TRUE, readers |-> {}, writer |-> 0, waiting |-> FALSE,
                     impl |-> 1, built |-> {1}, swaps |-> 0,
                     pc |-> [t \in Callers \cup {Owner} |-> "idle"],
                     seen |-> [t \in Callers |-> 0],
                     ended |-> [t \in Callers |-> 0]]

SwitchNext ==
    \/ \E t \in Callers : OpRLock(t)
    \/ \E t \in Callers : OpCall(t)
    \/ \E t \in Callers : OpReturn(t)
    \/ \E t \in Callers : OpRUnlock(t)
    \/ \E t \in Callers : SetLevelRLock(t)
    \/ \E t \in Callers : SetLevelWrite(t)
    \/ \E t \in Callers : SetLevelWritten(t)
    \/ SwapConstruct
    \/ SwapBuilt
    \/ SwapLockWait
    \/ SwapLock
    \/ SwapWrite
    \/ SwapUnlock

SwitchSpec == SwitchInit /\ [][SwitchNext]_vars

\* C26: the implementation of a Switchable never changes while a delegated
\* call on it is in progress: a call in progress runs against the
\* implementation the cell holds, it ends on the implementation it started
\* on, and that implementation has been fully built.
C26_SwapAtomic ==
    /\ [](switchable.on =>
            \A t \in Callers :
               /\ switchable.pc[t] = "call" =>
                     /\ switchable.seen[t] = switchable.impl
                     /\ switchable.seen[t] \in switchable.built
               /\ switchable.pc[t] = "done" =>
                     switchable.ended[t] = switchable.seen[t])
    /\ [][switchable'.impl # switchable.impl =>
            \A t \in Callers : switchable.pc[t] \notin {"locked", "call", "done"}]_vars

C26_Witness ==
    /\ switchable.on
    /\ switchable.swaps = 1
    /\ switchable.pc[1] = "call" /\ switchable.pc[2] = "call"
    /\ switchable.seen[1] = 2 /\ switchable.seen[2] = 2
    /\ switchable.pc[Owner] = "waiting"

\* C36: no SetLevel writes the level of the implementation while a delegated
\* call of another goroutine, which reads that level, is in progress.
C36_SetLevelExclusive ==
    switchable.on =>
       \A t \in Callers, u \in Callers :
          ~(t # u /\ switchable.pc[t] = "writing" /\ switchable.pc[u] = "call")

\* ------------------------------------------------- a Group under its lock
\* One group used by several goroutines.  Each method is the sequence of its
\* lock calls and of its accesses to g.minLevel ("minLevel") and to the
\* tracking maps g.basics, g.composites, g.noops ("tracking"), in program
\* order; an access takes two steps, so that two accesses can overlap.
\* guarded.readers, guarded.writer and guarded.waiters are the state of g.mu,
\* guarded.pc[t] the method goroutine t runs and the instruction it is at,
\* guarded.acc[t] the access it is in the middle of.
Goroutines == {1, 2}

RLockI == [op |-> "RLock", var |-> "", write |-> FALSE]
RUnlockI == [op |-> "RUnlock", var |-> "", write |-> FALSE]
LockI == [op |-> "Lock", var |-> "", write |-> FALSE]
UnlockI == [op |-> "Unlock", var |-> "", write |-> FALSE]
ReadI(var) == [op |-> "access", var |-> var, write |-> FALSE]
WriteI(var) == [op |-> "access", var |-> var, write |-> TRUE]

\* The methods of group, as written.
Programs ==
    [ \* SetGroupLevel, else branch: g.minLevel = level; range g.composites, g.basics
      SetGroupLevel |-> << WriteI("minLevel"), ReadI("tracking") >>,
      \* SetGroupLevel with ReplaceNoops: g.minLevel = level;
      \* level.Enabled(g.minLevel); convertNoops locks and ranges g.noops
      SetGroupLevelReplace |->
          << WriteI("minLevel"), ReadI("minLevel"),
             LockI, ReadI("tracking"), UnlockI >>,
      \* Context: RLock; NewContext(g.minLevel)
      Context |-> << RLockI, ReadI("minLevel"), RUnlockI >>,
      \* Metric: RLock; range g.basics, g.composites
      Metric |-> << RLockI, ReadI("tracking"), RUnlockI >>,
      \* Counter, name tracked: getBasic
      CounterFound |-> << RLockI, ReadI("tracking"), RUnlockI >>,
      \* Counter, name new: getBasic; level.Enabled(g.minLevel); track
      CounterNew |->
          << RLockI, ReadI("tracking"), RUnlockI,
             ReadI("minLevel"),
             LockI, WriteI("tracking"), UnlockI >> ]

NoAccess == [op |-> "none", var |-> "", write |-> FALSE]
IdlePc == [prog |-> "idle", at |-> 0]

\* The instruction goroutine t is at.
instr(t) ==
    IF guarded.pc[t].prog = "idle" THEN NoAccess
    ELSE Programs[guarded.pc[t].prog][guarded.pc[t].at]

\* The position after the instruction: the next one, or idle after the last.
advance(pc) ==
    IF pc.at = Len(Programs[pc.prog]) THEN IdlePc ELSE [pc EXCEPT !.at = @ + 1]

\* g.mu as the record canLock and canRLock read
groupMu ==
    [readers |-> guarded.readers, writer |-> guarded.writer,
     waiting |-> guarded.waiters # {}]

guardedStep(next) ==
    /\ guarded' = next
    /\ UNCHANGED << groupVars, fn, registry, engine, contexts, switchable, lateVars >>

\* A goroutine calls a method of the group.
GStart(t, prog) ==
    /\ guarded.pc[t] = IdlePc
    /\ guardedStep([guarded EXCEPT !.pc[t] = [prog |-> prog, at |-> 1]])

\* g.mu.RLock()
GRLock(t) ==
    /\ instr(t).op = "RLock"
    /\ canRLock(groupMu)
    /\ guardedStep([guarded EXCEPT !.readers = @ \cup {t},
                                   !.pc[t] = advance(@)])

\* defer g.mu.RUnlock()
GRUnlock(t) ==
    /\ instr(t).op = "RUnlock"
    /\ guardedStep([guarded EXCEPT !.readers = @ \ {t}, !.pc[t] = advance(@)])

\* g.mu.Lock() is called ...
GLockWait(t) ==
    /\ instr(t).op = "Lock"
    /\ t \notin guarded.waiters
    /\ guardedStep([guarded EXCEPT !.waiters = @ \cup {t}])

\* ... and granted
GLock(t) ==
    /\ instr(t).op = "Lock"
    /\ t \in guarded.waiters
    /\ canLock(groupMu)
    /\ guardedStep([guarded EXCEPT !.writer = t, !.waiters = @ \ {t},
                                   !.pc[t] = advance(@)])

\* defer g.mu.Unlock()
GUnlock(t) ==
    /\ instr(t).op = "Unlock"
    /\ guardedStep([guarded EXCEPT !.writer = 0, !.pc[t] = advance(@)])

\* An access to g.minLevel or to a tracking map begins ...
GAccess(t) ==
    /\ instr(t).op = "access"
    /\ guarded.acc[t] = NoAccess
    /\ guardedStep([guarded EXCEPT !.acc[t] = instr(t)])

\* ... and ends
GAccessEnd(t) ==
    /\ guarded.acc[t] # NoAccess
    /\ guardedStep([guarded EXCEPT !.acc[t] = NoAccess, !.pc[t] = advance(@)])

\* newGroup
GuardInit ==
    /\ GroupIdle /\ fn = NoFn /\ registry = NoRegistry /\ engine = NoEngine
    /\ contexts = NoContexts /\ switchable = NoSwitchable /\ LateIdle
    /\ guarded = [on |-> TRUE, readers |-> {}, writer |-> 0, waiters |-> {},
                  pc |-> [t \in Goroutines |-> IdlePc],
                  acc |-> [t \in Goroutines |-> NoAccess]]

GuardNext ==
    \/ \E t \in Goroutines, prog \in DOMAIN Programs : GStart(t, prog)
    \/ \E t \in Goroutines : GRLock(t)
    \/ \E t \in Goroutines : GRUnlock(t)
    \/ \E t \in Goroutines : GLockWait(t)
    \/ \E t \in Goroutines : GLock(t)
    \/ \E t \in Goroutines : GUnlock(t)
    \/ \E t \in Goroutines : GAccess(t)
    \/ \E t \in Goroutines : GAccessEnd(t)

GuardSpec == GuardInit /\ [][GuardNext]_vars

\* C27: a goroutine writes g.minLevel or a tracking map only while it holds
\* g.mu exclusively and reads them only while it holds g.mu, shared or
\* exclusively; no two goroutines are in accesses to the same one of them
\* when one of the accesses is a write.
C27_LockDiscipline ==
    guarded.on =>
       /\ \A t \in Goroutines :
             guarded.acc[t] # NoAccess =>
                IF guarded.acc[t].write
                THEN guarded.writer = t
                ELSE t \in guarded.readers \/ guarded.writer = t
       /\ \A t \in Goroutines, u \in Goroutines :
             ~(/\ t # u
               /\ guarded.acc[t] # NoAccess /\ guarded.acc[u] # NoAccess
               /\ guarded.acc[t].var = guarded.acc[u].var
               /\ guarded.acc[t].write)

\* The second half of C27 alone: two goroutines in conflicting accesses.
C27_NoRace ==
    guarded.on =>
       \A t \in Goroutines, u \in Goroutines :
          ~(/\ t # u
            /\ guarded.acc[t] # NoAccess /\ guarded.acc[u] # NoAccess
            /\ guarded.acc[t].var = guarded.acc[u].var
            /\ guarded.acc[t].write)


\* ------------------------------------------- the tracking collections
\* C28: in every reachable state no name is a key of both the basic and the
\* composite collection, whatever names the requests passed.
C28_DisjointCollections == DOMAIN basics \cap DOMAIN composites = {}

\* The Switchable tracked under the name in the collection of the given type.
trackedAs(name, type) ==
    IF type = MetricTypeBasic THEN getBasic(name) ELSE getComposite(name)

\* C29: the noop set is exactly the set of tracked names whose Switchable is
\* noop-backed: every name of the noop set is tracked in the collection of the
\* recorded type, a tracked Switchable is noop-backed exactly when the noop set
\* holds its name, and one whose name is outside the set is real-backed.
C29_NoopSetExact ==
    /\ \A n \in DOMAIN noops : trackedAs(n, noops[n]) # 0
    /\ \A type \in {MetricTypeBasic, MetricTypeComposite} :
          \A n \in IF type = MetricTypeBasic THEN DOMAIN basics ELSE DOMAIN composites :
             /\ n \in DOMAIN noops <=> IsNoopBacked(sw[trackedAs(n, type)])
             /\ n \notin DOMAIN noops => IsRealBacked(sw[trackedAs(n, type)])

\* baseSwitchableMetric.isNoop, the flag IsNoop() reports.
IsNoop(m) == m.isNoop

\* C30: the flag a Switchable records is true exactly when its current
\* implementation is a noop.
C30_FlagMatchesImpl ==
    \A h \in Handles : IsNoop(sw[h]) <=> IsNoopBacked(sw[h])


\* ------------------------------------------------- composites and components
\* A factory call that built and tracked a new composite.
CompositeCreated(l) == l.op = "Request" /\ l.flag /\ l.kind \in CompositeKinds

\* C31: creating a composite adds exactly one entry, the composite itself, to
\* the composite collection and none to the basic collection; none of its
\* components is filed in the basic collection or the noop set; and a Group
\* level call changes no component of a tracked composite.
C31_ComponentsUntracked ==
    [][ /\ CompositeCreated(last')
           => /\ basics' = basics
              /\ DOMAIN composites' = DOMAIN composites \cup {last'.name}
              /\ \A n \in DOMAIN composites : composites'[n] = composites[n]
              /\ composites'[last'.name] = last'.h
              /\ DOMAIN noops' \subseteq DOMAIN noops \cup {last'.name}
              /\ \A i \in Components(sw'[last'.h]) :
                    Name(sw'[last'.h].comps[i]) \notin DOMAIN basics' \cup DOMAIN noops'
        /\ GroupLevelCall(last')
           => \A h \in Range(composites) : sw'[h].comps = sw[h].comps ]_vars

\* A composite with real components was created next to a tracked basic metric.
C31_Witness ==
    /\ CompositeCreated(last)
    /\ IsRealBacked(sw[last.h]) /\ Components(sw[last.h]) # {}
    /\ basics # EmptyMap


\* --------------------------------------- factory calls of two goroutines
\* One Group whose factory methods run step by step in two goroutines: each
\* critical section of g.mu (getBasic, getComposite, track) is one step, and
\* every read of g.minLevel made outside the lock is a step of its own.
MaxCalls == 2
MaxLevelSets == 2
RaceName == [Counter |-> "g_a", Cache |-> "c"]
RaceKinds == DOMAIN RaceName
RaceLevels == {LevelCritical}
RaceMinLevels == {LevelDisabled, LevelCritical}

IdleCall ==
    [at |-> "idle", kind |-> "", level |-> LevelDisabled, noop |-> FALSE,
     comps |-> << >>, h |-> 0, calls |-> 0]

\* The locals of goroutine t.
frame(t) == racing.pc[t]

\* The names the Group tracks for requests of the kind.
raceTracked(kind) == IF kind \in BasicKinds THEN racing.basics ELSE racing.composites

racingStep(next) ==
    /\ racing' = next
    /\ UNCHANGED << groupVars, fn, registry, engine, contexts, switchable, guarded, locks >>

\* The call and g.getBasic / g.getComposite: a tracked metric is returned at
\* once.
RaceLookup(t, kind, level) ==
    /\ frame(t).at = "idle" /\ frame(t).calls < MaxCalls
    /\ LET found == RaceName[kind] \in DOMAIN raceTracked(kind)
           call == [IdleCall EXCEPT !.kind = kind, !.level = level,
                                    !.calls = frame(t).calls + 1] IN
       racingStep([racing EXCEPT !.pc[t] =
            IF found
            THEN [call EXCEPT !.h = raceTracked(kind)[RaceName[kind]]]
            ELSE [call EXCEPT !.at = "decide"]])

\* if !level.Enabled(g.minLevel): the factory method reads g.minLevel; a
\* disabled composite is built whole by its noop constructor.
RaceDecide(t) ==
    /\ frame(t).at = "decide"
    /\ LET noop == ~Enabled(frame(t).level, racing.minLevel)
           n == Len(ComponentSpec("Cache")) IN
       racingStep([racing EXCEPT !.pc[t] =
            [@ EXCEPT !.noop = noop,
                      !.comps = IF noop /\ frame(t).kind = "Cache"
                                THEN [i \in 1 .. n |-> TRUE] ELSE << >>,
                      !.at = IF frame(t).kind = "Cache" /\ ~noop
                             THEN "component" ELSE "build"]])

\* hits: g.Counter(opts.HitOpts, level), ...: each component call reads
\* g.minLevel again and builds a noop or a backend metric.
RaceComponent(t) ==
    /\ frame(t).at = "component"
    /\ LET noop == ~Enabled(frame(t).level, racing.minLevel)
           comps == Append(frame(t).comps, noop) IN
       racingStep([racing EXCEPT
            !.built[frame(t).kind] = IF noop THEN @ ELSE @ + 1,
            !.pc[t] = [@ EXCEPT !.comps = comps,
                                !.at = IF Len(comps) = Len(ComponentSpec("Cache"))
                                       THEN "build" ELSE "component"]])

\* g.backend.Counter(opts) for an enabled basic metric, then
\* newSwitchableCounter / newSwitchableCache: a new Switchable.
RaceBuild(t) ==
    /\ frame(t).at = "build"
    /\ racingStep([racing EXCEPT
            !.built[frame(t).kind] =
                IF frame(t).kind = "Counter" /\ ~frame(t).noop THEN @ + 1 ELSE @,
            !.cells = Append(@, [kind |-> frame(t).kind, noop |-> frame(t).noop,
                                 comps |-> frame(t).comps]),
            !.pc[t] = [@ EXCEPT !.h = Len(racing.cells) + 1, !.at = "track"]])

\* g.track(switchable, isTrackedNoop) and the return.
RaceTrack(t) ==
    /\ frame(t).at = "track"
    /\ LET kind == frame(t).kind
           name == RaceName[kind] IN
       racingStep([racing EXCEPT
            !.basics = IF kind \in BasicKinds THEN (name :> frame(t).h) @@ @ ELSE @,
            !.composites = IF kind \in BasicKinds THEN @ ELSE (name :> frame(t).h) @@ @,
            !.noops = IF frame(t).noop THEN @ \cup {name} ELSE @,
            !.pc[t] = [@ EXCEPT !.at = "idle"]])

\* g.minLevel = level, the first statement of group.SetGroupLevel, in a third
\* goroutine.
RaceSetGroupLevel(level) ==
    /\ racing.sets < MaxLevelSets
    /\ level # racing.minLevel
    /\ racingStep([racing EXCEPT !.minLevel = level, !.sets = @ + 1])

RaceInit ==
    /\ GroupIdle /\ fn = NoFn /\ registry = NoRegistry /\ engine = NoEngine
    /\ contexts = NoContexts /\ switchable = NoSwitchable /\ guarded = NoGuarded
    /\ locks = NoLocks
    /\ \E level \in RaceMinLevels :
          racing = [on |-> TRUE, minLevel |-> level, basics |-> EmptyMap,
                    composites |-> EmptyMap, noops |-> {}, cells |-> << >>,
                    built |-> [k \in RaceKinds |-> 0], sets |-> 0,
                    pc |-> [t \in Goroutines |-> IdleCall]]

RaceNext ==
    \/ \E t \in Goroutines, kind \in RaceKinds, level \in RaceLevels :
          RaceLookup(t, kind, level)
    \/ \E t \in Goroutines : RaceDecide(t)
    \/ \E t \in Goroutines : RaceComponent(t)
    \/ \E t \in Goroutines : RaceBuild(t)
    \/ \E t \in Goroutines : RaceTrack(t)
    \/ \E level \in RaceMinLevels : RaceSetGroupLevel(level)

RaceSpec == RaceInit /\ [][RaceNext]_vars

\* Goroutine t has returned from a request of the kind.
Returned(t, kind) ==
    frame(t).at = "idle" /\ frame(t).calls > 0 /\ frame(t).kind = kind

\* C32: two goroutines that requested the same kind under the same name hold
\* the same handle, the Group built a single Switchable for the name, and the
\* backend constructor ran at most once for it.
C32_ConcurrentRequestOnce ==
    \A t \in Goroutines, u \in Goroutines :
       (t # u /\ Returned(t, "Counter") /\ Returned(u, "Counter"))
       => /\ frame(t).h = frame(u).h
          /\ Cardinality({h \in DOMAIN racing.cells :
                             racing.cells[h].kind = "Counter"}) = 1
          /\ racing.built["Counter"] <= 1

\* C38: the components of a tracked composite are all noops with the
\* composite's name in the noop set, or all real with the name outside it.
C38_ComponentsAgree ==
    \A n \in DOMAIN racing.composites :
       LET c == racing.cells[racing.composites[n]] IN
       \/ (\A i \in DOMAIN c.comps : c.comps[i]) /\ n \in racing.noops
       \/ (\A i \in DOMAIN c.comps : ~c.comps[i]) /\ n \notin racing.noops


\* -------------------------------------------------------- noop conversion
\* group.convertNoopPrime and group.convertNoopComposite, which no method of
\* the Group calls, applied to the tracked metrics of a Group.
MaxAdapters == 3
MaxCells == 3

\* The name a basic factory method gives the metric it builds from the options
\* a noop captured: opts.Name, which the noop took after the prefix was added,
\* is prefixed again.
convertedName(noop) == GroupName \o "_" \o Name(noop)

\* group.convertNoopPrime on a tracked noop: g.Counter(metric.constructorOpts(),
\* metric.Level()) and its siblings, with FromComposite false.
ConvertNoopPrime(h) ==
    /\ h \in Range(basics) /\ IsNoopImpl(sw[h])
    /\ adapters < MaxAdapters /\ Len(sw) < MaxCells
    /\ LET noop == sw[h]
           name == convertedName(noop)
           impl == basicImpl(noop.kind, name, noop.help, Level(noop), adapters + 1) IN
       IF getBasic(name) # 0
       THEN /\ last' = [NoCall EXCEPT !.op = "convertNoopPrime", !.h = h,
                                      !.kind = noop.kind, !.name = name,
                                      !.level = Level(noop), !.val = getBasic(name)]
            /\ UNCHANGED << basics, composites, noops, sw, adapters >>
       ELSE /\ sw' = Append(sw, newBaseSwitchableMetric(impl))
            /\ adapters' = adapters + Constructed(impl)
            /\ track(impl, Len(sw) + 1, ~Enabled(Level(noop), minLevel))
            /\ last' = [NoCall EXCEPT !.op = "convertNoopPrime", !.h = h,
                                      !.kind = noop.kind, !.name = name,
                                      !.level = Level(noop), !.flag = TRUE,
                                      !.val = Len(sw) + 1,
                                      !.calls = Constructed(impl)]
    /\ UNCHANGED << globalLevel, minLevel >>
    /\ UNCHANGED << fn, registry, engine, restVars >>

\* group.convertNoopComposite: each noop component is converted with
\* FromComposite true (built, not tracked) and the result is assigned to the
\* loop variable; the composite is returned as it came.
ConvertNoopComposite(h) ==
    /\ h \in Range(composites)
    /\ adapters < MaxAdapters
    /\ LET built == { i \in Components(sw[h]) :
                        /\ IsNoopImpl(sw[h].comps[i])
                        /\ Enabled(Level(sw[h].comps[i]), minLevel) } IN
       /\ adapters' = adapters + Cardinality(built)
       /\ last' = [NoCall EXCEPT !.op = "convertNoopComposite", !.h = h,
                                 !.kind = sw[h].kind, !.name = Name(sw[h]),
                                 !.level = Level(sw[h]),
                                 !.calls = Cardinality(built)]
    /\ UNCHANGED << globalLevel, minLevel, basics, composites, noops, sw >>
    /\ UNCHANGED << fn, registry, engine, restVars >>

ConvertKinds == {"Counter", "Timer"}

ConvertInit == Init /\ minLevel = LevelDisabled /\ globalLevel = LevelDisabled

ConvertNext ==
    \/ \E kind \in ConvertKinds \cap BasicKinds, n \in BasicNames, help \in Helps,
          level \in DeclaredLevels : RequestBasic(kind, n, help, level)
    \/ \E kind \in ConvertKinds \cap CompositeKinds, n \in CompositeNames, help \in Helps,
          level \in DeclaredLevels : RequestComposite(kind, n, help, level)
    \/ \E level \in LevelChoices, r \in BOOLEAN : SetGroupLevel(level, r)
    \/ \E h \in Handles : ConvertNoopPrime(h)
    \/ \E h \in Handles : ConvertNoopComposite(h)

ConvertSpec == ConvertInit /\ [][ConvertNext]_vars

\* C33: after convertNoopComposite on a noop-backed composite whose level the
\* Group now enables, none of its Components() is a noop.
C33_CompositeUpgraded ==
    [][ (/\ last'.op = "convertNoopComposite"
         /\ IsNoopBacked(sw[last'.h])
         /\ Enabled(Level(sw[last'.h]), minLevel))
        => \A i \in Components(sw'[last'.h]) :
              ~IsNoopImpl(sw'[last'.h].comps[i]) ]_vars

\* C34: the implementation convertNoopPrime builds from a tracked noop whose
\* level the Group now enables has the noop's name, help and declared level,
\* costs one backend call, and ends behind the noop's own Switchable: no
\* tracked entry is added.
C34_RebuiltFromNoop ==
    [][ (/\ last'.op = "convertNoopPrime"
         /\ Enabled(Level(sw[last'.h]), minLevel))
        => /\ last'.calls = 1
           /\ IsRealBacked(sw'[last'.h])
           /\ Name(sw'[last'.h]) = Name(sw[last'.h])
           /\ sw'[last'.h].help = sw[last'.h].help
           /\ sw'[last'.h].declared = sw[last'.h].declared
           /\ DOMAIN basics' = DOMAIN basics
           /\ Len(sw') = Len(sw) ]_vars


\* ------------------------------------------------------------ group.Metric
\* Names a caller may pass to Metric: the stored names, a requested name before
\* its prefix, and one never used.
LookupNames == {"g_a", "a", "none"}

\* C35: Metric(m.Name()) is the handle m for every metric m a factory method
\* returned, and Metric(n) is nil for every name n that no tracked metric has.
C35_MetricFindsHandle ==
    /\ \A h \in Handles : Metric(Name(sw[h])) = h
    /\ \A n \in LookupNames :
          (\A h \in Handles : Name(sw[h]) # n) => Metric(n) = 0


\* -------------------------------------------------------------- ApplyConfig
\* A registry whose groups are created by NewGroup and configured by
\* ApplyConfig.
ConfigNext ==
    \/ \E name \in RegistryNames, backend \in RegistryBackends, level \in LevelArgs :
          RegNewGroup(name, backend, level)
    \/ \E level \in ConfigLevels, groups \in ConfigGroups :
          \E order \in ConfigOrders(groups) : RegApplyConfig(level, groups, order)

ConfigSpec == RegistryInit /\ [][ConfigNext]_vars

\* C39: ApplyConfig completes without a fault for every config, and afterwards
\* the registry's global level is config.GlobalLevel, every existing Group named
\* in config.Groups has its configured level as minimum level, and every other
\* Group has config.GlobalLevel.
C39_ApplyConfigTotal ==
    (registry.on /\ registry.call.op = "ApplyConfig")
    => /\ ~registry.call.fault
       /\ registry.globalLevel = registry.call.level[1]
       /\ \A n \in DOMAIN registry.groups :
             registry.groups[n].minLevel =
                IF n \in DOMAIN registry.call.groups
                THEN registry.call.groups[n]
                ELSE registry.call.level[1]


\* ------------------------------------------------------------ lock order
\* The mutexes of one registry, one of its groups, one composite Switchable
\* tracked by the group and one basic Switchable (tracked, or a component of
\* the composite), and two goroutines calling the methods that take them.
\* Each method is the sequence of its lock calls in program order, the calls
\* of the methods it calls included.
MaxLockCalls == 2
Mutexes == {"registry", "group", "composite", "basic"}

\* The order the claim names: registry, then group, then a composite's
\* Switchable, then a basic one.
lockRank(mu) ==
    CASE mu = "registry" -> 1
      [] mu = "group" -> 2
      [] mu = "composite" -> 3
      [] mu = "basic" -> 4

lockOp(op, mu) == [op |-> op, mu |-> mu]

\* m.mu.Lock ... defer m.mu.Unlock around a body, and the same for RLock
locked(mu, body) == << lockOp("Lock", mu) >> \o body \o << lockOp("Unlock", mu) >>
rlocked(mu, body) == << lockOp("RLock", mu) >> \o body \o << lockOp("RUnlock", mu) >>

\* The else branch of group.SetGroupLevel: SetLevel on the tracked composites,
\* then on the tracked basics; the group's own lock is not taken.
setLevelLocks == rlocked("composite", << >>) \o rlocked("basic", << >>)

MethodLocks ==
    [ \* registry.NewGroup, registry.Group
      NewGroup |-> locked("registry", << >>),
      \* registry.GlobalContext
      GlobalContext |-> rlocked("registry", << >>),
      \* registry.SetGlobalLevel: group.SetGroupLevel inside the registry lock
      SetGlobalLevel |-> locked("registry", setLevelLocks),
      \* ... with ReplaceNoops: group.convertNoops locks the group
      SetGlobalLevelReplace |-> locked("registry", locked("group", << >>)),
      \* group.SetGroupLevel
      SetGroupLevel |-> setLevelLocks,
      SetGroupLevelReplace |-> locked("group", << >>),
      \* group.Context
      Context |-> rlocked("group", << >>),
      \* group.Metric: metric.Name() of the basics, then of the composites
      Metric |-> rlocked("group", rlocked("basic", << >>) \o rlocked("composite", << >>)),
      \* group.Cache: getComposite, switchable.SetLevel, then track with
      \* metric.Type() and metric.Name() inside the group lock
      Cache |-> rlocked("group", << >>) \o rlocked("composite", << >>)
                \o locked("group", rlocked("composite", << >>) \o rlocked("composite", << >>)),
      \* switchableCache.Hit: the composite's lock, then its component's
      Hit |-> rlocked("composite", rlocked("basic", << >>)) ]

\* group.Cache whose track looks the name up again inside the group lock.
methodLocksTrackChecking(method) ==
    IF method = "Cache"
    THEN rlocked("group", << >>) \o rlocked("composite", << >>)
         \o locked("group", rlocked("group", << >>) \o rlocked("composite", << >>))
    ELSE MethodLocks[method]

methodLocks(method) == MethodLocks[method]

IdleLockPc == [method |-> "idle", at |-> 0]

\* The lock call goroutine t is at.
lockInstr(t) ==
    IF locks.pc[t].method = "idle" THEN lockOp("none", "")
    ELSE methodLocks(locks.pc[t].method)[locks.pc[t].at]

lockAdvance(pc) ==
    IF pc.at = Len(methodLocks(pc.method)) THEN IdleLockPc ELSE [pc EXCEPT !.at = @ + 1]

\* The mutex as the record canLock and canRLock read
mutexOf(mu) ==
    [readers |-> locks.mu[mu].readers, writer |-> locks.mu[mu].writer,
     waiting |-> locks.mu[mu].waiters # {}]

\* The sequence without its last element equal to x.
RECURSIVE dropLast(_, _)
dropLast(seq, x) ==
    IF seq = << >> THEN << >>
    ELSE IF seq[Len(seq)] = x THEN SubSeq(seq, 1, Len(seq) - 1)
    ELSE Append(dropLast(SubSeq(seq, 1, Len(seq) - 1), x), seq[Len(seq)])

locksStep(next) ==
    /\ locks' = next
    /\ UNCHANGED << groupVars, fn, registry, engine, contexts, switchable, guarded, racing >>

\* A goroutine calls a method.
LStart(t, method) ==
    /\ locks.pc[t] = IdleLockPc
    /\ locks.calls[t] < MaxLockCalls
    /\ locksStep([locks EXCEPT !.pc[t] = [method |-> method, at |-> 1],
                               !.calls[t] = @ + 1])

\* mu.RLock()
LRLock(t) ==
    /\ lockInstr(t).op = "RLock"
    /\ canRLock(mutexOf(lockInstr(t).mu))
    /\ locksStep([locks EXCEPT !.mu[lockInstr(t).mu].readers = @ \cup {t},
                               !.held[t] = Append(@, lockInstr(t).mu),
                               !.pc[t] = lockAdvance(@)])

\* mu.RUnlock()
LRUnlock(t) ==
    /\ lockInstr(t).op = "RUnlock"
    /\ locksStep([locks EXCEPT !.mu[lockInstr(t).mu].readers = @ \ {t},
                               !.held[t] = dropLast(@, lockInstr(t).mu),
                               !.pc[t] = lockAdvance(@)])

\* mu.Lock() is called ...
LLockWait(t) ==
    /\ lockInstr(t).op = "Lock"
    /\ t \notin locks.mu[lockInstr(t).mu].waiters
    /\ locksStep([locks EXCEPT !.mu[lockInstr(t).mu].waiters = @ \cup {t}])

\* ... and granted
LLock(t) ==
    /\ lockInstr(t).op = "Lock"
    /\ t \in locks.mu[lockInstr(t).mu].waiters
    /\ canLock(mutexOf(lockInstr(t).mu))
    /\ locksStep([locks EXCEPT !.mu[lockInstr(t).mu].writer = t,
                               !.mu[lockInstr(t).mu].waiters = @ \ {t},
                               !.held[t] = Append(@, lockInstr(t).mu),
                               !.pc[t] = lockAdvance(@)])

\* mu.Unlock()
LUnlock(t) ==
    /\ lockInstr(t).op = "Unlock"
    /\ locksStep([locks EXCEPT !.mu[lockInstr(t).mu].writer = 0,
                               !.held[t] = dropLast(@, lockInstr(t).mu),
                               !.pc[t] = lockAdvance(@)])

\* The steps of goroutine t inside a call.
LStep(t) == LRLock(t) \/ LRUnlock(t) \/ LLockWait(t) \/ LLock(t) \/ LUnlock(t)

LockInit ==
    /\ GroupIdle /\ fn = NoFn /\ registry = NoRegistry /\ engine = NoEngine
    /\ contexts = NoContexts /\ switchable = NoSwitchable /\ guarded = NoGuarded
    /\ racing = NoRacing
    /\ locks = [on |-> TRUE,
                mu |-> [m \in Mutexes |-> [readers |-> {}, writer |-> 0, waiters |-> {}]],
                pc |-> [t \in Goroutines |-> IdleLockPc],
                held |-> [t \in Goroutines |-> << >>],
                calls |-> [t \in Goroutines |-> 0]]

LockNext ==
    \/ \E t \in Goroutines, method \in DOMAIN MethodLocks : LStart(t, method)
    \/ \E t \in Goroutines : LRLock(t)
    \/ \E t \in Goroutines : LRUnlock(t)
    \/ \E t \in Goroutines : LLockWait(t)
    \/ \E t \in Goroutines : LLock(t)
    \/ \E t \in Goroutines : LUnlock(t)

LockSpec == LockInit /\ [][LockNext]_vars

\* The Go scheduler runs every runnable goroutine: a step of a call that stays
\* possible is taken.
FairLockSpec == LockSpec /\ \A t \in Goroutines : WF_vars(LStep(t))

\* Goroutine t is inside a call; its next lock call can go ahead.
InCall(t) == locks.pc[t] # IdleLockPc
canStep(t) ==
    CASE lockInstr(t).op = "RLock" -> canRLock(mutexOf(lockInstr(t).mu))
      [] lockInstr(t).op = "Lock" ->
            \/ t \notin locks.mu[lockInstr(t).mu].waiters
            \/ canLock(mutexOf(lockInstr(t).mu))
      [] OTHER -> TRUE

\* C37: every lock a goroutine asks for ranks after every lock it holds
\* (registry, group, composite Switchable, basic Switchable; so none is taken
\* twice), some goroutine inside a call can always take its next step, and
\* under fair scheduling every call returns.
C37_NoDeadlock ==
    /\ [](locks.on =>
            /\ \A t \in Goroutines :
                  lockInstr(t).op \in {"RLock", "Lock"} =>
                     \A i \in DOMAIN locks.held[t] :
                        lockRank(locks.held[t][i]) < lockRank(lockInstr(t).mu)
            /\ (\E t \in Goroutines : InCall(t)) =>
                  \E t \in Goroutines : InCall(t) /\ canStep(t))
    /\ \A t \in Goroutines : InCall(t) ~> ~InCall(t)

\* SetGlobalLevel with ReplaceNoops holds the registry lock and waits for the
\* group lock while Metric holds the group lock and a Switchable's.
C37_Witness ==
    /\ locks.on
    /\ locks.pc[1].method = "SetGlobalLevelReplace"
    /\ locks.held[1] = << "registry" >>
    /\ 1 \in locks.mu["group"].waiters
    /\ locks.pc[2].method = "Metric"
    /\ locks.held[2] = << "group", "composite" >>

====
